---- MODULE Spec2Model ----
(***************************************************************************)
(* A model of pg_rocket: the foreign-key graph (cycle detection and        *)
(* topological sort), the traversal engine (TraversalState.Extract), the   *)
(* SQL / JSON writers, the direct executor and the pull command.           *)
(*                                                                         *)
(* Go values are modelled as follows.  A string that is only compared for  *)
(* equality is a TLA+ string; where the Go code orders strings             *)
(* (sort.Strings, "<" on fmt.Sprintf output) the order is computed on the  *)
(* byte sequence of the string (Bytes, LexLess).  A Go map is a function   *)
(* whose DOMAIN is the key set; a read of a missing key yields the zero    *)
(* value (Lookup).  nil / SQL NULL is Null.                                *)
(***************************************************************************)
EXTENDS Integers, Sequences, FiniteSets, TLC

VARIABLES
    \* ---- graph construction and emission order (SpecGraph) ----
    fkRows,        \* rows of the pg_constraint query, in ORDER BY order
    graph,         \* the *Graph returned by BuildGraph, or NoGraph
    gpc,           \* position: "new", "built", "cyclic", "listed", then the
                   \* output that ran: "sql", "json", "exec", or "sortfailed"
    cyclePath,     \* the cycle named in BuildGraph's error
    tables,        \* result of GetAllTables (map iteration order)
    emitted,       \* tables in the order the writer or the executor handled them
    \* ---- one pull: TraversalState.Extract (Spec) ----
    schema,        \* which source database the run reads
    query,         \* QueryInfo: BaseTable, the rows and columns the root query yields
    opts,          \* TraversalOptions
    VisitedRows,   \* ts.VisitedRows: table -> set of row identities
    TableData,     \* ts.TableData: table -> sequence of rows
    RowCount,      \* ts.RowCount
    pc,            \* position in Extract: "root", "parents", "children",
                   \* "range", "done", "failed"
    bfs,           \* locals of the running traverseParents / traverseChildren
    loop,          \* locals of the range over ts.TableData
    processedParents, \* Extract's processedParents
    err,           \* the error the last fetch returned (NoError if none)
    runNo,         \* 1, or 2 when the same extraction is being repeated
    prev,          \* what the first run produced, kept for the second
    \* ---- the direct executor (Spec) ----
    epc,           \* "idle", "connected", "inserting", "committed", "failed"
    upsertMode,    \* Executor.upsertMode
    committed,     \* the committed state of the target: table -> set of rows
    before,        \* the committed state of the target when Execute was called
    tx,            \* the state the open transaction sees, or NoTx
    sortedTables,  \* Execute's sortedTables
    ti,            \* index of the table the insertion loop is at
    execErr,       \* the error Execute returned
    execRun,       \* 1, or 2 when Execute runs again on the same snapshot
    \* ---- the pull command (SpecPull) ----
    flags,         \* the flags and environment of the invocation
    ppc,           \* "start", "connected", "engine", "extracted", "returned"
    pullErr,       \* the error runPull returned
    netIO          \* the connections opened and queries issued so far

gvars == <<fkRows, graph, gpc, cyclePath, tables, emitted>>

tvars == <<schema, query, opts, VisitedRows, TableData, RowCount, pc, bfs, loop,
           processedParents, err, runNo, prev>>

evars == <<epc, upsertMode, committed, before, tx, sortedTables, ti, execErr, execRun>>

pvars == <<flags, ppc, pullErr, netIO>>

vars == <<gvars, tvars, evars, pvars>>

-----------------------------------------------------------------------------
(* Sequences and strings                                                   *)

Range(s) == {s[i] : i \in 1..Len(s)}

\* An empty Go map, a read with the zero value for a missing key, a write.
EmptyMap == [k \in {} |-> <<>>]

Lookup(m, k) == IF k \in DOMAIN m THEN m[k] ELSE <<>>

Put(m, k, v) == [x \in DOMAIN m \cup {k} |-> IF x = k THEN v ELSE m[x]]

\* Go's nil interface value / SQL NULL.
Null == 0

\* The bytes of the identifiers that the code orders.
Bytes(s) ==
    CASE s = "a" -> <<97>>
      [] s = "b" -> <<98>>
      [] s = "c" -> <<99>>
      [] s = "d" -> <<100>>
      [] s = "a_id" -> <<97, 95, 105, 100>>
      [] s = "b_id" -> <<98, 95, 105, 100>>
      [] s = "c_id" -> <<99, 95, 105, 100>>
      [] s = "d_id" -> <<100, 95, 105, 100>>
      [] s = "a_ref" -> <<97, 95, 114, 101, 102>>
      [] s = "b_ref" -> <<98, 95, 114, 101, 102>>
      [] s = "c_ref" -> <<99, 95, 114, 101, 102>>
      [] s = "d_ref" -> <<100, 95, 114, 101, 102>>
      [] s = "comments" -> <<99, 111, 109, 109, 101, 110, 116, 115>>
      [] s = "organizations" -> <<111, 114, 103, 97, 110, 105, 122, 97, 116, 105, 111, 110, 115>>
      [] s = "tasks" -> <<116, 97, 115, 107, 115>>
      [] s = "users" -> <<117, 115, 101, 114, 115>>
      [] s = "id" -> <<105, 100>>
      [] s = "assigned_to" -> <<97, 115, 115, 105, 103, 110, 101, 100, 95, 116, 111>>
      [] s = "author_id" -> <<97, 117, 116, 104, 111, 114, 95, 105, 100>>
      [] s = "manager_id" -> <<109, 97, 110, 97, 103, 101, 114, 95, 105, 100>>
      [] s = "org_id" -> <<111, 114, 103, 95, 105, 100>>
      [] s = "task_id" -> <<116, 97, 115, 107, 95, 105, 100>>
      [] s = "user_id" -> <<117, 115, 101, 114, 95, 105, 100>>
      [] s = "parts" -> <<112, 97, 114, 116, 115>>
      [] s = "num" -> <<110, 117, 109>>
      [] s = "rev" -> <<114, 101, 118>>
      [] s = "base_num" -> <<98, 97, 115, 101, 95, 110, 117, 109>>
      [] s = "accounts" -> <<97, 99, 99, 111, 117, 110, 116, 115>>
      [] s = "currencies" -> <<99, 117, 114, 114, 101, 110, 99, 105, 101, 115>>
      [] s = "entries" -> <<101, 110, 116, 114, 105, 101, 115>>
      [] s = "number" -> <<110, 117, 109, 98, 101, 114>>
      [] s = "code" -> <<99, 111, 100, 101>>
      [] s = "account_number" -> <<97, 99, 99, 111, 117, 110, 116, 95, 110, 117, 109, 98, 101, 114>>
      [] s = "currency_code" -> <<99, 117, 114, 114, 101, 110, 99, 121, 95, 99, 111, 100, 101>>

\* Go's "<" on strings: bytewise lexicographic order.
RECURSIVE LexLess(_, _)
LexLess(x, y) ==
    IF Len(y) = 0 THEN FALSE
    ELSE IF Len(x) = 0 THEN TRUE
    ELSE IF x[1] # y[1] THEN x[1] < y[1]
    ELSE LexLess(Tail(x), Tail(y))

StrLess(s, t) == LexLess(Bytes(s), Bytes(t))

\* sort.Strings: ascending order of the strings of a slice (duplicates kept).
RECURSIVE InsertString(_, _)
InsertString(sorted, s) ==
    IF Len(sorted) = 0 THEN <<s>>
    ELSE IF StrLess(s, Head(sorted)) THEN <<s>> \o sorted
    ELSE <<Head(sorted)>> \o InsertString(Tail(sorted), s)

RECURSIVE SortStrings(_)
SortStrings(s) ==
    IF Len(s) = 0 THEN <<>>
    ELSE InsertString(SortStrings(Tail(s)), Head(s))

\* All orders in which a set can be enumerated (Go map iteration order).
RECURSIVE Orderings(_)
Orderings(S) ==
    IF S = {} THEN {<<>>}
    ELSE UNION {{<<x>> \o p : p \in Orderings(S \ {x})} : x \in S}

\* fmt.Sprintf("%v", v) of an integer or of nil, as bytes.
RECURSIVE Digits(_)
Digits(n) == IF n < 10 THEN <<48 + n>> ELSE Digits(n \div 10) \o <<48 + (n % 10)>>

Sprintf(v) == IF v = Null THEN <<60, 110, 105, 108, 62>> ELSE Digits(v)

\* fmt.Sprintf("%v", vs) of a []interface{}: "[v1 v2 ...]".
RECURSIVE SprintfJoin(_)
SprintfJoin(vs) ==
    IF Len(vs) = 0 THEN <<>>
    ELSE IF Len(vs) = 1 THEN Sprintf(vs[1])
    ELSE Sprintf(vs[1]) \o <<32>> \o SprintfJoin(Tail(vs))

SprintfSlice(vs) == <<91>> \o SprintfJoin(vs) \o <<93>>

-----------------------------------------------------------------------------
(* db.ForeignKey, db.Metadata, graph.Graph                                 *)

ForeignKey(ct, cc, pt, pcol) ==
    [ChildTable |-> ct, ChildColumn |-> cc, ParentTable |-> pt, ParentColumn |-> pcol]

\* extractForeignKeys: every catalog row is appended to Parents[child] and
\* to Children[parent], in the order the query returned the rows.
extractForeignKeys(rows) ==
    LET childTables == {rows[i].ChildTable : i \in 1..Len(rows)}
        parentTables == {rows[i].ParentTable : i \in 1..Len(rows)}
    IN [Parents |-> [t \in childTables |->
                        SelectSeq(rows, LAMBDA fk : fk.ChildTable = t)],
        Children |-> [t \in parentTables |->
                        SelectSeq(rows, LAMBDA fk : fk.ParentTable = t)]]

\* NewGraph: the graph owns the metadata's three maps.
NewGraph(metadata) ==
    [Parents |-> metadata.Parents,
     Children |-> metadata.Children,
     PrimaryKey |-> metadata.PrimaryKey]

GetParents(g, table) == Lookup(g.Parents, table)

GetChildren(g, table) == Lookup(g.Children, table)

GetPrimaryKeyColumns(g, table) == Lookup(g.PrimaryKey, table)

\* GetPrimaryKey: the first primary-key column, "" when there is none.
GetPrimaryKey(g, table) ==
    LET pks == Lookup(g.PrimaryKey, table)
    IN IF Len(pks) > 0 THEN pks[1] ELSE ""

-----------------------------------------------------------------------------
(* Graph.DetectMultiTableCycles and BuildGraph                             *)

\* Variant of cycleTail: the walk up the parent pointers stops only at the
\* table the search started from.
RECURSIVE cycleTailToRoot(_, _, _)
cycleTailToRoot(parent, current, childTable) ==
    IF current # ""
    THEN <<current>> \o cycleTailToRoot(parent, parent[current], childTable)
    ELSE <<>>

\* The cycle slice built when the DFS finds a GRAY child: childTable, then
\* table and its DFS ancestors up to childTable, then childTable; reversed.
RECURSIVE cycleTail(_, _, _)
cycleTail(parent, current, childTable) ==
    IF current # childTable /\ current # ""
    THEN <<current>> \o cycleTail(parent, parent[current], childTable)
    ELSE <<>>

Reverse(s) == [i \in 1..Len(s) |-> s[Len(s) + 1 - i]]

cycleOf(parent, table, childTable) ==
    Reverse(<<childTable>> \o cycleTail(parent, table, childTable) \o <<childTable>>)

\* dfs(table): colour the table GRAY, then loop over g.Children[table]
\* (dfsFrom, from index i on), then colour it BLACK.  st is the closure's
\* state: color, parent, and the error (the cycle) once one is found.
RECURSIVE dfs(_, _, _), dfsFrom(_, _, _, _)
dfs(g, st, table) == dfsFrom(g, [st EXCEPT !.color[table] = "GRAY"], table, 1)

dfsFrom(g, st, table, i) ==
    LET fks == Lookup(g.Children, table) IN
    IF st.failed THEN st
    ELSE IF i > Len(fks) THEN [st EXCEPT !.color[table] = "BLACK"]
    ELSE LET childTable == fks[i].ChildTable IN
         IF childTable = table THEN dfsFrom(g, st, table, i + 1)
         ELSE IF st.color[childTable] = "GRAY"
              THEN [st EXCEPT !.failed = TRUE,
                              !.cycle = cycleOf(st.parent, table, childTable)]
         ELSE IF st.color[childTable] = "WHITE"
              THEN dfsFrom(g, dfs(g, [st EXCEPT !.parent[childTable] = table], childTable),
                           table, i + 1)
         ELSE dfsFrom(g, st, table, i + 1)

\* A search that starts at the first table name only.
dfsFirstRoot(g, st, sorted) ==
    IF Len(sorted) = 0 THEN st ELSE dfs(g, st, Head(sorted))

\* The loop over the sorted table names that starts a DFS at every WHITE one.
RECURSIVE dfsRoots(_, _, _)
dfsRoots(g, st, sorted) ==
    IF st.failed \/ Len(sorted) = 0 THEN st
    ELSE IF st.color[Head(sorted)] = "WHITE"
         THEN dfsRoots(g, dfs(g, st, Head(sorted)), Tail(sorted))
         ELSE dfsRoots(g, st, Tail(sorted))

DetectMultiTableCycles(g) ==
    LET allTables == DOMAIN g.Parents \cup DOMAIN g.Children
        start == [color |-> [t \in allTables |-> "WHITE"],
                  parent |-> [t \in allTables |-> ""],
                  failed |-> FALSE,
                  cycle |-> <<>>]
        sorted == SortStrings(CHOOSE p \in Orderings(allTables) : TRUE)
        final == dfsRoots(g, start, sorted)
    IN [failed |-> final.failed, cycle |-> final.cycle]

\* BuildGraph: the graph, or the cycle error.
BuildGraph(metadata) ==
    LET g == NewGraph(metadata)
        cyc == DetectMultiTableCycles(g)
    IN [ok |-> ~cyc.failed, graph |-> g, cycle |-> cyc.cycle]

-----------------------------------------------------------------------------
(* Graph.TopologicalSort (Kahn's algorithm)                                *)

\* Variant of topoEdges: self-referential foreign keys add an edge too.
RECURSIVE topoEdgesWithSelfRefs(_, _, _)
topoEdgesWithSelfRefs(g, tbls, tableSet) ==
    IF Len(tbls) = 0 THEN <<>>
    ELSE LET table == Head(tbls)
             kept == SelectSeq(Lookup(g.Parents, table),
                        LAMBDA fk : fk.ParentTable \in tableSet)
         IN [i \in 1..Len(kept) |-> <<kept[i].ParentTable, table>>]
            \o topoEdgesWithSelfRefs(g, Tail(tbls), tableSet)

\* Variant of topoEdges: every edge points from the child to the parent.
RECURSIVE topoEdgesReversed(_, _, _)
topoEdgesReversed(g, tbls, tableSet) ==
    IF Len(tbls) = 0 THEN <<>>
    ELSE LET table == Head(tbls)
             kept == SelectSeq(Lookup(g.Parents, table),
                        LAMBDA fk : fk.ParentTable # table /\ fk.ParentTable \in tableSet)
         IN [i \in 1..Len(kept) |-> <<table, kept[i].ParentTable>>]
            \o topoEdgesReversed(g, Tail(tbls), tableSet)

\* The edges added by the loop over tables and g.Parents[table]: one
\* <<parent, child>> per foreign key that is not self-referential and whose
\* parent is in the table set, in iteration order.
RECURSIVE topoEdges(_, _, _)
topoEdges(g, tbls, tableSet) ==
    IF Len(tbls) = 0 THEN <<>>
    ELSE LET table == Head(tbls)
             kept == SelectSeq(Lookup(g.Parents, table),
                        LAMBDA fk : fk.ParentTable # table /\ fk.ParentTable \in tableSet)
         IN [i \in 1..Len(kept) |-> <<kept[i].ParentTable, table>>]
            \o topoEdges(g, Tail(tbls), tableSet)

\* The loop over the sorted children of the dequeued table.
RECURSIVE kahnRelax(_, _, _)
kahnRelax(children, inDegree, queue) ==
    IF Len(children) = 0 THEN [inDegree |-> inDegree, queue |-> queue]
    ELSE LET child == Head(children)
             deg == inDegree[child] - 1
             inDegree1 == [inDegree EXCEPT ![child] = deg]
             queue1 == IF deg = 0 THEN SortStrings(Append(queue, child)) ELSE queue
         IN kahnRelax(Tail(children), inDegree1, queue1)

RECURSIVE kahnLoop(_, _, _, _)
kahnLoop(adjList, inDegree, queue, result) ==
    IF Len(queue) = 0 THEN [inDegree |-> inDegree, result |-> result]
    ELSE LET current == Head(queue)
             children == SortStrings(adjList[current])
             next == kahnRelax(children, inDegree, Tail(queue))
         IN kahnLoop(adjList, next.inDegree, next.queue, Append(result, current))

\* Variant of TopologicalSort: the initial queue is left in input order.
TopologicalSortFromUnsortedQueue(g, tbls) ==
    LET tableSet == Range(tbls)
        edges == topoEdges(g, tbls, tableSet)
        adjList == [p \in tableSet |->
                      LET mine == SelectSeq(edges, LAMBDA e : e[1] = p)
                      IN [i \in 1..Len(mine) |-> mine[i][2]]]
        inDegree == [t \in tableSet |->
                      Len(SelectSeq(edges, LAMBDA e : e[2] = t))]
        queue == SelectSeq(tbls, LAMBDA t : inDegree[t] = 0)
        final == kahnLoop(adjList, inDegree, queue, <<>>)
    IN IF Len(final.result) # Len(tbls)
       THEN [ok |-> FALSE, order |-> <<>>,
             remaining |-> {t \in tableSet : final.inDegree[t] > 0}]
       ELSE [ok |-> TRUE, order |-> final.result, remaining |-> {}]

TopologicalSort(g, tbls) ==
    LET tableSet == Range(tbls)
        edges == topoEdges(g, tbls, tableSet)
        adjList == [p \in tableSet |->
                      LET mine == SelectSeq(edges, LAMBDA e : e[1] = p)
                      IN [i \in 1..Len(mine) |-> mine[i][2]]]
        inDegree == [t \in tableSet |->
                      Len(SelectSeq(edges, LAMBDA e : e[2] = t))]
        queue == SortStrings(SelectSeq(tbls, LAMBDA t : inDegree[t] = 0))
        final == kahnLoop(adjList, inDegree, queue, <<>>)
    IN IF Len(final.result) # Len(tbls)
       THEN [ok |-> FALSE, order |-> <<>>,
             remaining |-> {t \in tableSet : final.inDegree[t] > 0}]
       ELSE [ok |-> TRUE, order |-> final.result, remaining |-> {}]

-----------------------------------------------------------------------------
(* The catalog of the source database                                      *)

\* ORDER BY c.relname, a.attname of the foreign-key query.
CatalogLess(x, y) ==
    \/ StrLess(x.ChildTable, y.ChildTable)
    \/ x.ChildTable = y.ChildTable /\ StrLess(x.ChildColumn, y.ChildColumn)

RECURSIVE CatalogOrder(_)
CatalogOrder(S) ==
    IF S = {} THEN <<>>
    ELSE LET first == CHOOSE x \in S : \A y \in S \ {x} : CatalogLess(x, y)
         IN <<first>> \o CatalogOrder(S \ {first})

\* ExtractMetadata: the primary keys, then the foreign keys.
ExtractMetadata(pk, rows) ==
    LET fkMaps == extractForeignKeys(rows)
    IN [Parents |-> fkMaps.Parents, Children |-> fkMaps.Children, PrimaryKey |-> pk]

-----------------------------------------------------------------------------
(* SpecGraph: graph construction and emission order over every small       *)
(* catalog.  The catalog has three tables with a primary key "id"; every   *)
(* table may reference every table (itself included) through x_id, and     *)
(* every other table a second time through x_ref.                          *)

GraphTables == {"a", "b", "c"}

\* Bound: the number of foreign keys of a catalog.
MaxFKs == 3

RefColumn(parent) ==
    CASE parent = "a" -> "a_id" [] parent = "b" -> "b_id"
      [] parent = "c" -> "c_id" [] parent = "d" -> "d_id"

RefColumn2(parent) ==
    CASE parent = "a" -> "a_ref" [] parent = "b" -> "b_ref"
      [] parent = "c" -> "c_ref" [] parent = "d" -> "d_ref"

FKUniverse ==
    {ForeignKey(c, RefColumn(p), p, "id") : c \in GraphTables, p \in GraphTables}
    \cup {ForeignKey(cp[1], RefColumn2(cp[2]), cp[2], "id") :
            cp \in {x \in GraphTables \X GraphTables : x[1] # x[2]}}

Catalogs == {S \in SUBSET FKUniverse : Cardinality(S) <= MaxFKs}

NoGraph == [Parents |-> EmptyMap, Children |-> EmptyMap, PrimaryKey |-> EmptyMap]

\* NewEngine: ExtractMetadata, then BuildGraph; the engine exists only if
\* the graph passed cycle detection.
NewEngine ==
    /\ gpc = "new"
    /\ LET built == BuildGraph(ExtractMetadata([t \in GraphTables |-> <<"id">>], fkRows))
       IN IF built.ok
          THEN /\ graph' = built.graph
               /\ gpc' = "built"
               /\ cyclePath' = <<>>
          ELSE /\ graph' = NoGraph
               /\ gpc' = "cyclic"
               /\ cyclePath' = built.cycle
    /\ UNCHANGED <<fkRows, tables, emitted, tvars, evars, pvars>>

\* GetAllTables: the keys of TableData (the tables that hold rows), in the
\* order the runtime enumerates the map.
GetAllTables ==
    /\ gpc = "built"
    /\ \E S \in SUBSET GraphTables \ {{}} : \E order \in Orderings(S) :
          tables' = order
    /\ gpc' = "listed"
    /\ UNCHANGED <<fkRows, graph, cyclePath, emitted, tvars, evars, pvars>>

\* SQLWriter.Write: one block per table of the sorted list (every listed
\* table holds rows, so none is skipped).
SQLTableOrder(g, tbls) == TopologicalSort(g, tbls)

\* Executor.Execute: one insertTable per table of the sorted list.
ExecTableOrder(g, tbls) == TopologicalSort(g, tbls)

\* JSONWriter.Write: the sorted tables are stored into a Go map, which
\* encoding/json writes with its keys in sorted order.
JSONKeyOrder(g, tbls) ==
    LET sorted == TopologicalSort(g, tbls)
    IN [ok |-> sorted.ok, order |-> SortStrings(sorted.order), remaining |-> sorted.remaining]

Emit(kind, sorted) ==
    /\ gpc = "listed"
    /\ IF sorted.ok
       THEN gpc' = kind /\ emitted' = sorted.order
       ELSE gpc' = "sortfailed" /\ emitted' = <<>>
    /\ UNCHANGED <<fkRows, graph, cyclePath, tables, tvars, evars, pvars>>

SQLWrite == Emit("sql", SQLTableOrder(graph, tables))

JSONWrite == Emit("json", JSONKeyOrder(graph, tables))

ExecuteOrder == Emit("exec", ExecTableOrder(graph, tables))

\* Position of a table in a sequence without duplicates.
IndexOf(s, x) == CHOOSE i \in 1..Len(s) : s[i] = x

\* Every foreign key between two different emitted tables has its parent
\* table before its child table.
ParentsFirst(g, order) ==
    \A child \in Range(order) : \A i \in 1..Len(GetParents(g, child)) :
        LET fk == GetParents(g, child)[i] IN
        (fk.ParentTable # child /\ fk.ParentTable \in Range(order))
            => IndexOf(order, fk.ParentTable) < IndexOf(order, child)

-----------------------------------------------------------------------------
(* The source databases of the pipeline specification                      *)
(*                                                                         *)
(* "tracker": the issue-tracker schema of the integration fixture          *)
(* (organizations, users with a self-referential manager_id, tasks,        *)
(* comments), where a comment names its author in author_id.  Users 2 and *)
(* 3 manage each other; user 1 is alone in organization 1.                 *)
(* "parts": one table with the composite primary key (num, rev), whose     *)
(* base_num references the unique column num of the same table.            *)
(* "ledger": accounts with the primary key id and a unique number,         *)
(* currencies without a primary key (code is unique), and entries that     *)
(* reference accounts.number and currencies.code.                          *)

Schemas == {"tracker", "parts", "ledger"}

SourceColumns(s) ==
    IF s = "tracker"
    THEN [organizations |-> <<"id">>,
          users |-> <<"id", "org_id", "manager_id">>,
          tasks |-> <<"id", "assigned_to">>,
          comments |-> <<"id", "task_id", "author_id">>]
    ELSE IF s = "parts"
    THEN [parts |-> <<"num", "rev", "base_num">>]
    ELSE [accounts |-> <<"id", "number">>,
          currencies |-> <<"code">>,
          entries |-> <<"id", "account_number", "currency_code">>]

SourcePrimaryKeys(s) ==
    IF s = "tracker"
    THEN [organizations |-> <<"id">>, users |-> <<"id">>,
          tasks |-> <<"id">>, comments |-> <<"id">>]
    ELSE IF s = "parts"
    THEN [parts |-> <<"num", "rev">>]
    ELSE [accounts |-> <<"id">>, entries |-> <<"id">>]

SourceForeignKeys(s) ==
    IF s = "tracker"
    THEN {ForeignKey("users", "org_id", "organizations", "id"),
          ForeignKey("users", "manager_id", "users", "id"),
          ForeignKey("tasks", "assigned_to", "users", "id"),
          ForeignKey("comments", "task_id", "tasks", "id"),
          ForeignKey("comments", "author_id", "users", "id")}
    ELSE IF s = "parts"
    THEN {ForeignKey("parts", "base_num", "parts", "num")}
    ELSE {ForeignKey("entries", "account_number", "accounts", "number"),
          ForeignKey("entries", "currency_code", "currencies", "code")}

SourceRows(s) ==
    IF s = "tracker"
    THEN [organizations |-> {[id |-> 1], [id |-> 2]},
          users |-> {[id |-> 1, org_id |-> 1, manager_id |-> Null],
                     [id |-> 2, org_id |-> 2, manager_id |-> 3],
                     [id |-> 3, org_id |-> 2, manager_id |-> 2]},
          tasks |-> {[id |-> 1, assigned_to |-> 1],
                     [id |-> 2, assigned_to |-> Null]},
          comments |-> {[id |-> 1, task_id |-> 1, author_id |-> 3],
                        [id |-> 2, task_id |-> 2, author_id |-> 3]}]
    ELSE IF s = "parts"
    THEN [parts |-> {[num |-> 1, rev |-> 1, base_num |-> Null],
                     [num |-> 2, rev |-> 1, base_num |-> 1]}]
    ELSE [accounts |-> {[id |-> 1, number |-> 2], [id |-> 2, number |-> 1]},
          currencies |-> {[code |-> 1], [code |-> 2]},
          entries |-> {[id |-> 1, account_number |-> 2, currency_code |-> 1],
                       [id |-> 2, account_number |-> 1, currency_code |-> 2]}]

SourceTables(s) == DOMAIN SourceColumns(s)

\* Every non-null foreign-key value of the source resolves in the source.
SourceConsistent(s) ==
    \A fk \in SourceForeignKeys(s) : \A r \in SourceRows(s)[fk.ChildTable] :
        r[fk.ChildColumn] # Null =>
            \E q \in SourceRows(s)[fk.ParentTable] : q[fk.ParentColumn] = r[fk.ChildColumn]

\* ORDER BY col: ascending; rows that agree on col come in an order the
\* database picks.
RECURSIVE OrderBy(_, _)
OrderBy(S, col) ==
    IF S = {} THEN <<>>
    ELSE LET first == CHOOSE r \in S : \A o \in S : r[col] <= o[col]
         IN <<first>> \o OrderBy(S \ {first}, col)

\* The rows a result set delivers: the selected rows projected on cols.
Project(rows, cols) ==
    [i \in 1..Len(rows) |-> [c \in Range(cols) |-> rows[i][c]]]

\* SELECT <all columns> FROM table WHERE col IN (values) ORDER BY orderCol.
\* failAt is the row at which reading the result fails (0: it does not).
SelectIn(s, table, col, values, orderCol, failAt) ==
    [cols |-> SourceColumns(s)[table],
     rows |-> OrderBy({r \in SourceRows(s)[table] : r[col] \in Range(values)}, orderCol),
     failAt |-> failAt]

-----------------------------------------------------------------------------
(* TraversalOptions, as runPull builds them from the flags                 *)

\* Program constant: the default of --max-rows.
DefaultMaxRows == 10000

\* Bound: the small row cap tried besides the default.
SmallCap == 3

TraversalOptions(parentsOnly, childrenList, maxRows, force) ==
    [ParentsOnly |-> parentsOnly,
     ChildrenOnly |-> (childrenList # <<>> /\ ~parentsOnly),
     SelectedChildren |-> childrenList,
     MaxRows |-> maxRows,
     Force |-> force]

-----------------------------------------------------------------------------
(* The row processor                                                       *)

\* Program constant: rows fetched per IN-list query.
BatchSize == 500

NoError == ""

\* The values of the primary-key columns of a row, collected by the loop
\* over the result's fields (in field order).
RECURSIVE pkValuesOf(_, _, _)
pkValuesOf(cols, row, pkColumns) ==
    IF Len(cols) = 0 THEN <<>>
    ELSE LET hits == SelectSeq(pkColumns, LAMBDA pkCol : pkCol = Head(cols))
         IN [i \in 1..Len(hits) |-> row[Head(cols)]]
            \o pkValuesOf(Tail(cols), row, pkColumns)

\* The identity under which a row is deduplicated: the raw value of a
\* single primary-key column, else the text of the value slice.
pkKeyOf(pkValues) ==
    IF Len(pkValues) = 1 THEN pkValues[1] ELSE SprintfSlice(pkValues)

pkKeyIsNil(pkValues) == Len(pkValues) = 1 /\ pkValues[1] = Null

\* Variant of RowLimitExceeded: the cap is hit on reaching max_rows.
RowLimitExceededAtCap(o, rowCount) == ~o.Force /\ rowCount >= o.MaxRows

\* The row cap test that follows ts.RowCount++.
RowLimitExceeded(o, rowCount) == ~o.Force /\ rowCount > o.MaxRows

\* The loop "for rows.Next()" from row i on.  acc holds VisitedRows[table],
\* newRows, RowCount and the error that ended the loop.
RECURSIVE rowLoop(_, _, _, _, _)
rowLoop(o, pkColumns, res, acc, i) ==
    IF i > Len(res.rows) THEN acc
    ELSE IF res.failAt = i THEN [acc EXCEPT !.err = "failed to scan row"]
    ELSE LET rowMap == res.rows[i]
             pkValues == pkValuesOf(res.cols, rowMap, pkColumns)
         IN IF Len(pkValues) # Len(pkColumns)
            THEN [acc EXCEPT !.err = "primary key value(s) missing"]
            ELSE IF pkKeyIsNil(pkValues)
            THEN [acc EXCEPT !.err = "primary key value is NULL"]
            ELSE IF pkKeyOf(pkValues) \in acc.visited
            THEN rowLoop(o, pkColumns, res, acc, i + 1)
            ELSE LET counted == [acc EXCEPT !.visited = @ \cup {pkKeyOf(pkValues)},
                                            !.newRows = Append(@, rowMap),
                                            !.rowCount = @ + 1]
                 IN IF RowLimitExceeded(o, counted.rowCount)
                    THEN [counted EXCEPT !.err = "row limit exceeded"]
                    ELSE rowLoop(o, pkColumns, res, counted, i + 1)

\* processRows: st is the TraversalState (VisitedRows, TableData, RowCount).
\* newRows reach TableData only when the loop ended without an error; then
\* rows.Err() is returned.
processRows(g, o, st, res, tableName) ==
    LET pkColumns == GetPrimaryKeyColumns(g, tableName)
        start == [visited |-> IF tableName \in DOMAIN st.VisitedRows
                              THEN st.VisitedRows[tableName] ELSE {},
                  newRows |-> <<>>,
                  rowCount |-> st.RowCount,
                  err |-> NoError]
        acc == rowLoop(o, pkColumns, res, start, 1)
        marked == [st EXCEPT !.VisitedRows = Put(@, tableName, acc.visited),
                             !.RowCount = acc.rowCount]
    IN IF acc.err # NoError THEN [st |-> marked, err |-> acc.err]
       ELSE [st |-> IF Len(acc.newRows) > 0
                    THEN [marked EXCEPT !.TableData =
                            Put(@, tableName, Lookup(@, tableName) \o acc.newRows)]
                    ELSE marked,
             err |-> IF res.failAt = Len(res.rows) + 1
                     THEN "failed to read rows" ELSE NoError]

\* processRowsWithJSONBInfo: the same loop; JSON columns arrive as text and
\* are stored as they are.
processRowsWithJSONBInfo(g, o, st, res, tableName, jsonbCols) ==
    processRows(g, o, st, res, tableName)

-----------------------------------------------------------------------------
(* Fetching parents and children                                           *)

\* A fault of the source connection during one fetch: the query fails, or
\* reading its result fails at row failAt.
NoFault == [query |-> FALSE, failAt |-> 0]

\* Bound: the latest row at which reading a result fails.
MaxFailAt == 2

Faults ==
    {NoFault, [query |-> TRUE, failAt |-> 0]}
    \cup {[query |-> FALSE, failAt |-> k] : k \in 1..MaxFailAt}

\* removeDuplicates: distinct values (by their text), sorted by their text.
RECURSIVE InsertByText(_, _)
InsertByText(sorted, v) ==
    IF Len(sorted) = 0 THEN <<v>>
    ELSE IF LexLess(Sprintf(v), Sprintf(Head(sorted))) THEN <<v>> \o sorted
    ELSE <<Head(sorted)>> \o InsertByText(Tail(sorted), v)

RECURSIVE removeDuplicates(_)
removeDuplicates(values) ==
    IF Len(values) = 0 THEN <<>>
    ELSE LET rest == removeDuplicates(SelectSeq(Tail(values),
                        LAMBDA v : Sprintf(v) # Sprintf(Head(values))))
         IN InsertByText(rest, Head(values))

\* The non-nil values of a column over the stored rows of a table; a row
\* that lacks the column yields nil.
ColumnValues(rows, col) ==
    LET vals == [i \in 1..Len(rows) |->
                    IF col \in DOMAIN rows[i] THEN rows[i][col] ELSE Null]
    IN SelectSeq(vals, LAMBDA v : v # Null)

fetchRowsByPK(s, g, o, st, tableName, pkColumn, values, fault) ==
    IF Len(values) = 0 THEN [st |-> st, err |-> NoError]
    ELSE IF fault.query THEN [st |-> st, err |-> "failed to fetch rows"]
    ELSE processRowsWithJSONBInfo(g, o, st,
            SelectIn(s, tableName, pkColumn, values, pkColumn, fault.failAt),
            tableName, {})

fetchRowsByFK(s, g, o, st, tableName, fkColumn, values, fault) ==
    IF Len(values) = 0 THEN [st |-> st, err |-> NoError]
    ELSE IF fault.query \/ GetPrimaryKey(g, tableName) = ""
    THEN [st |-> st, err |-> "failed to fetch rows"]
    ELSE processRowsWithJSONBInfo(g, o, st,
            SelectIn(s, tableName, fkColumn, values, GetPrimaryKey(g, tableName),
                     fault.failAt),
            tableName, {})

\* The batch loops of fetchParentRows (byPK) and fetchChildRows: one query
\* per BatchSize values, stopping at the first error.  The fault strikes
\* the first query.
RECURSIVE fetchBatches(_, _, _, _, _, _, _, _, _, _)
fetchBatches(byPK, s, g, o, st, tableName, column, values, i, fault) ==
    IF i > Len(values) THEN [st |-> st, err |-> NoError]
    ELSE LET end == IF i + BatchSize - 1 > Len(values) THEN Len(values)
                    ELSE i + BatchSize - 1
             batch == SubSeq(values, i, end)
             got == IF byPK
                    THEN fetchRowsByPK(s, g, o, st, tableName, column, batch, fault)
                    ELSE fetchRowsByFK(s, g, o, st, tableName, column, batch, fault)
         IN IF got.err # NoError THEN got
            ELSE fetchBatches(byPK, s, g, o, got.st, tableName, column, values,
                              i + BatchSize, NoFault)

fetchParentRows(s, g, o, st, childTable, fk, fault) ==
    LET childRows == Lookup(st.TableData, childTable)
        parentValues == ColumnValues(childRows, fk.ChildColumn)
    IN IF Len(childRows) = 0 \/ Len(parentValues) = 0
       THEN [st |-> st, err |-> NoError]
       ELSE fetchBatches(TRUE, s, g, o, st, fk.ParentTable, fk.ParentColumn,
                         removeDuplicates(parentValues), 1, fault)

fetchChildRows(s, g, o, st, parentTable, fk, fault) ==
    LET parentRows == Lookup(st.TableData, parentTable)
        parentPKs == ColumnValues(parentRows, GetPrimaryKey(g, parentTable))
    IN IF Len(parentRows) = 0 \/ Len(parentPKs) = 0
       THEN [st |-> st, err |-> NoError]
       ELSE fetchBatches(FALSE, s, g, o, st, fk.ChildTable, fk.ChildColumn,
                         removeDuplicates(parentPKs), 1, fault)

-----------------------------------------------------------------------------
(* Extract: the root query, the upward and downward traversals and the     *)
(* loop over the discovered tables, one action per loop iteration          *)

\* The queries a run can start from: a base table with a primary key, the
\* rows the root query selects, its result columns in their order (all
\* columns, or for users "SELECT id, manager_id") and the result columns
\* that the select list computes as NULL ("SELECT num, NULL AS rev, ...").
\* Every query names the whole primary key, as ValidateQuery demands.
RootProjections(s, t) ==
    IF s = "parts" THEN {<<"num", "rev", "base_num">>, <<"rev", "num", "base_num">>}
    ELSE IF t = "users" THEN {SourceColumns(s)[t], <<"id", "manager_id">>}
    ELSE {SourceColumns(s)[t]}

RootNulls(s, t) == IF s = "parts" THEN {{}, {"rev"}} ELSE {{}}

QueriesOn(s, t) ==
    {[BaseTable |-> t, rows |-> rs, cols |-> cs, nulls |-> ns] :
        rs \in SUBSET SourceRows(s)[t], cs \in RootProjections(s, t),
        ns \in RootNulls(s, t)}

\* The result of the root query.
RootResult(q) ==
    LET selected == Project(OrderBy(q.rows, q.cols[1]), q.cols)
    IN [i \in 1..Len(selected) |->
            [c \in DOMAIN selected[i] |-> IF c \in q.nulls THEN Null ELSE selected[i][c]]]

Queries(s) == UNION {QueriesOn(s, t) : t \in DOMAIN SourcePrimaryKeys(s)}

\* The --children lists tried; "savings" is a table that neither schema has.
ChildrenLists(s) ==
    IF s = "tracker" THEN {<<>>, <<"comments">>, <<"tasks", "comments">>, <<"savings">>}
    ELSE IF s = "parts" THEN {<<>>, <<"parts">>}
    ELSE {<<>>, <<"entries">>}

Options(s) ==
    {TraversalOptions(po, cl, cap[1], cap[2]) :
        po \in BOOLEAN, cl \in ChildrenLists(s),
        cap \in {<<SmallCap, FALSE>>, <<DefaultMaxRows, FALSE>>, <<SmallCap, TRUE>>}}

SchemaGraph(s) ==
    BuildGraph(ExtractMetadata(SourcePrimaryKeys(s), CatalogOrder(SourceForeignKeys(s)))).graph

NewTraversalState == [VisitedRows |-> EmptyMap, TableData |-> EmptyMap, RowCount |-> 0]

TS == [VisitedRows |-> VisitedRows, TableData |-> TableData, RowCount |-> RowCount]

\* The locals of traverseParents / traverseChildren: queue, processed, the
\* table being expanded (currentTable, "" between iterations), the index of
\* the foreign key the inner loop is at, the call site to return to, and
\* the tables reported to Progress.TraversingTable so far.
StartTraversal(startTable, caller) ==
    [queue |-> <<startTable>>, processed |-> {}, currentTable |-> "",
     fki |-> 1, caller |-> caller, traversing |-> <<>>]

NoTraversal == [queue |-> <<>>, processed |-> {}, currentTable |-> "",
                fki |-> 1, caller |-> "", traversing |-> <<>>]

\* The locals of the loop "for tableName := range ts.TableData": the keys
\* present when the loop started and the keys produced so far.
NoLoop == [initial |-> {}, produced |-> {}]

\* A fetch returned: the state it left behind, and the error if any.
Returned(got) ==
    /\ VisitedRows' = got.st.VisitedRows
    /\ TableData' = got.st.TableData
    /\ RowCount' = got.st.RowCount
    /\ err' = got.err

\* Faults are explored in the first run; the second run repeats it on a
\* healthy connection.
FaultsNow == IF runNo = 1 THEN Faults ELSE {NoFault}

\* Extract, lines 72-80: where it goes after the root query.
AfterRootQuery ==
    IF ~opts.ChildrenOnly
    THEN /\ pc' = "parents"
         /\ bfs' = StartTraversal(query.BaseTable, "base")
    ELSE IF ~opts.ParentsOnly
    THEN /\ pc' = "children"
         /\ bfs' = StartTraversal(query.BaseTable, "base")
    ELSE /\ pc' = "done"
         /\ bfs' = NoTraversal

ExecuteRootQuery ==
    /\ pc = "root"
    /\ \E fault \in FaultsNow :
        LET res == [cols |-> query.cols,
                    rows |-> RootResult(query),
                    failAt |-> fault.failAt]
            got == IF fault.query
                   THEN [st |-> TS, err |-> "failed to execute root query"]
                   ELSE processRows(graph, opts, TS, res, query.BaseTable)
        IN /\ Returned(got)
           /\ IF got.err # NoError
              THEN pc' = "failed" /\ bfs' = NoTraversal
              ELSE AfterRootQuery
    /\ UNCHANGED <<gvars, evars, pvars, schema, query, opts, loop, processedParents, runNo, prev>>

\* A loop head that tests the front of the queue without removing it.
DequeueWithoutPop(fks) ==
    LET t == Head(bfs.queue)
    IN IF t \in bfs.processed
       THEN bfs
       ELSE [bfs EXCEPT !.queue = Tail(@), !.processed = @ \cup {t},
                        !.currentTable = IF Len(fks) = 0 THEN "" ELSE t,
                        !.fki = 1,
                        !.traversing = Append(@, t)]

\* One iteration of "for len(queue) > 0" up to the inner loop.
Dequeue(fks) ==
    LET t == Head(bfs.queue)
    IN IF t \in bfs.processed
       THEN [bfs EXCEPT !.queue = Tail(@)]
       ELSE [bfs EXCEPT !.queue = Tail(@), !.processed = @ \cup {t},
                        !.currentTable = IF Len(fks) = 0 THEN "" ELSE t,
                        !.fki = 1,
                        !.traversing = Append(@, t)]

\* The inner loop moves on: to the next foreign key, or out of the loop.
NextFK(b, fks, enqueue) ==
    [b EXCEPT !.queue = @ \o enqueue,
              !.fki = IF b.fki < Len(fks) THEN b.fki + 1 ELSE 1,
              !.currentTable = IF b.fki < Len(fks) THEN @ ELSE ""]

TraverseParentsDequeue ==
    /\ pc = "parents" /\ bfs.currentTable = "" /\ bfs.queue # <<>>
    /\ bfs' = Dequeue(GetParents(graph, Head(bfs.queue)))
    /\ UNCHANGED <<gvars, evars, pvars, schema, query, opts, VisitedRows, TableData, RowCount, pc, loop,
                   processedParents, err, runNo, prev>>

TraverseParentsFetch ==
    /\ pc = "parents" /\ bfs.currentTable # ""
    /\ \E fault \in FaultsNow :
        LET parentFKs == GetParents(graph, bfs.currentTable)
            fk == parentFKs[bfs.fki]
            got == fetchParentRows(schema, graph, opts, TS, bfs.currentTable, fk, fault)
        IN /\ Returned(got)
           /\ IF got.err # NoError
              THEN pc' = "failed" /\ bfs' = NoTraversal
              ELSE pc' = pc /\ bfs' = NextFK(bfs, parentFKs, <<fk.ParentTable>>)
    /\ UNCHANGED <<gvars, evars, pvars, schema, query, opts, loop, processedParents, runNo, prev>>

\* traverseParents returns nil: to Extract line 77, or to line 95 inside
\* the loop over the discovered tables.
TraverseParentsReturn ==
    /\ pc = "parents" /\ bfs.currentTable = "" /\ bfs.queue = <<>>
    /\ processedParents' = processedParents \cup
            {IF bfs.caller = "base" THEN query.BaseTable ELSE bfs.caller}
    /\ IF bfs.caller # "base"
       THEN pc' = "range" /\ bfs' = NoTraversal
       ELSE IF ~opts.ParentsOnly
       THEN pc' = "children" /\ bfs' = StartTraversal(query.BaseTable, "base")
       ELSE pc' = "done" /\ bfs' = NoTraversal
    /\ UNCHANGED <<gvars, evars, pvars, schema, query, opts, VisitedRows, TableData, RowCount, loop,
                   err, runNo, prev>>

TraverseChildrenDequeue ==
    /\ pc = "children" /\ bfs.currentTable = "" /\ bfs.queue # <<>>
    /\ bfs' = Dequeue(GetChildren(graph, Head(bfs.queue)))
    /\ UNCHANGED <<gvars, evars, pvars, schema, query, opts, VisitedRows, TableData, RowCount, pc, loop,
                   processedParents, err, runNo, prev>>

\* Variant of selectedChildrenMap: the map is left empty.
selectedChildrenMapEmpty(o) == {}

selectedChildrenMap(o) == Range(o.SelectedChildren)

TraverseChildrenFetch ==
    /\ pc = "children" /\ bfs.currentTable # ""
    /\ LET childFKs == GetChildren(graph, bfs.currentTable)
           fk == childFKs[bfs.fki]
       IN IF selectedChildrenMap(opts) # {} /\ fk.ChildTable \notin selectedChildrenMap(opts)
          THEN /\ bfs' = NextFK(bfs, childFKs, <<>>)
               /\ UNCHANGED <<VisitedRows, TableData, RowCount, pc, err>>
          ELSE \E fault \in FaultsNow :
                LET got == fetchChildRows(schema, graph, opts, TS, bfs.currentTable, fk, fault)
                IN /\ Returned(got)
                   /\ IF got.err # NoError
                      THEN pc' = "failed" /\ bfs' = NoTraversal
                      ELSE pc' = pc /\ bfs' = NextFK(bfs, childFKs, <<fk.ChildTable>>)
    /\ UNCHANGED <<gvars, evars, pvars, schema, query, opts, loop, processedParents, runNo, prev>>

\* traverseChildren returns nil: Extract line 88 starts the loop over the
\* tables discovered so far, unless only children were asked for.
TraverseChildrenReturn ==
    /\ pc = "children" /\ bfs.currentTable = "" /\ bfs.queue = <<>>
    /\ bfs' = NoTraversal
    /\ IF ~opts.ChildrenOnly
       THEN pc' = "range" /\ loop' = [initial |-> DOMAIN TableData, produced |-> {}]
       ELSE pc' = "done" /\ loop' = loop
    /\ UNCHANGED <<gvars, evars, pvars, schema, query, opts, VisitedRows, TableData, RowCount,
                   processedParents, err, runNo, prev>>

\* Variant of RangeNext: the children of a discovered table are closed as
\* well.
RangeNextWithChildren ==
    /\ pc = "range"
    /\ \E tableName \in DOMAIN TableData \ loop.produced :
        /\ loop' = [loop EXCEPT !.produced = @ \cup {tableName}]
        /\ IF tableName \notin processedParents /\ tableName # query.BaseTable
           THEN pc' = "children" /\ bfs' = StartTraversal(tableName, tableName)
           ELSE pc' = pc /\ bfs' = bfs
    /\ UNCHANGED <<gvars, evars, pvars, schema, query, opts, VisitedRows, TableData, RowCount,
                   processedParents, err, runNo, prev>>

\* The range statement produces a key not produced yet, in no particular
\* order: any key of the map, present from the start or added meanwhile.
RangeNext ==
    /\ pc = "range"
    /\ \E tableName \in DOMAIN TableData \ loop.produced :
        /\ loop' = [loop EXCEPT !.produced = @ \cup {tableName}]
        /\ IF tableName \notin processedParents /\ tableName # query.BaseTable
           THEN pc' = "parents" /\ bfs' = StartTraversal(tableName, tableName)
           ELSE pc' = pc /\ bfs' = bfs
    /\ UNCHANGED <<gvars, evars, pvars, schema, query, opts, VisitedRows, TableData, RowCount,
                   processedParents, err, runNo, prev>>

\* The range statement ends once every key present from the start has been
\* produced; a key added during the loop may be skipped.
RangeEnd ==
    /\ pc = "range"
    /\ loop.initial \subseteq loop.produced
    /\ pc' = "done"
    /\ UNCHANGED <<gvars, evars, pvars, schema, query, opts, VisitedRows, TableData, RowCount, bfs, loop,
                   processedParents, err, runNo, prev>>

-----------------------------------------------------------------------------
(* The SQL and JSON documents                                              *)

\* The comparison function handed to sort.Slice: by the text of the
\* primary-key columns, column after column.
RECURSIVE pkLess(_, _, _)
pkLess(pkColumns, ri, rj) ==
    IF Len(pkColumns) = 0 THEN FALSE
    ELSE LET pkCol == Head(pkColumns)
             vi == Sprintf(IF pkCol \in DOMAIN ri THEN ri[pkCol] ELSE Null)
             vj == Sprintf(IF pkCol \in DOMAIN rj THEN rj[pkCol] ELSE Null)
         IN IF vi # vj THEN LexLess(vi, vj)
            ELSE pkLess(Tail(pkColumns), ri, rj)

\* sort.Slice with that comparison.  Rows that compare equal stay in an
\* order the library picks; the rows of one table that agree on the whole
\* primary key are equal maps in the sources above.
RECURSIVE InsertRow(_, _, _)
InsertRow(pkColumns, sorted, r) ==
    IF Len(sorted) = 0 THEN <<r>>
    ELSE IF pkLess(pkColumns, r, Head(sorted)) THEN <<r>> \o sorted
    ELSE <<Head(sorted)>> \o InsertRow(pkColumns, Tail(sorted), r)

RECURSIVE SortRows(_, _)
SortRows(pkColumns, rows) ==
    IF Len(rows) = 0 THEN <<>>
    ELSE InsertRow(pkColumns, SortRows(pkColumns, Tail(rows)), Head(rows))

\* The columns of a table block: the keys of the first row, sorted.
columnsOf(row) == SortStrings(CHOOSE p \in Orderings(DOMAIN row) : TRUE)

\* formatValue, for the value types of the sources: NULL or an integer.
formatValue(value) == IF value = Null THEN <<78, 85, 76, 76>> ELSE Digits(value)

\* writeTable: the "-- Table" comment, the column list and one tuple per
\* row; a column that a row lacks reads as nil.
writeTable(g, tableName, rows) ==
    LET sortedRows == SortRows(GetPrimaryKeyColumns(g, tableName), rows)
        columns == columnsOf(sortedRows[1])
    IN [table |-> tableName,
        rowCount |-> Len(rows),
        columns |-> columns,
        values |-> [i \in 1..Len(sortedRows) |->
                      [j \in 1..Len(columns) |->
                          formatValue(IF columns[j] \in DOMAIN sortedRows[i]
                                      THEN sortedRows[i][columns[j]] ELSE Null)]]]

\* SQLWriter.Write without the "Generated at" line: the table count of the
\* header and the blocks of the tables that hold rows, in sorted order.
SQLDocument(g, data, tbls) ==
    LET sorted == SQLTableOrder(g, tbls)
        withRows == SelectSeq(sorted.order, LAMBDA t : Len(Lookup(data, t)) > 0)
    IN IF ~sorted.ok THEN [ok |-> FALSE, total |-> 0, blocks |-> <<>>]
       ELSE [ok |-> TRUE, total |-> Len(sorted.order),
             blocks |-> [i \in 1..Len(withRows) |->
                            writeTable(g, withRows[i], data[withRows[i]])]]

\* encoding/json of a value of the sources: null or a number.
jsonValue(value) == IF value = Null THEN <<110, 117, 108, 108>> ELSE Digits(value)

\* encoding/json of one row: its keys in sorted order.
jsonRow(row) ==
    LET keys == columnsOf(row)
    IN [j \in 1..Len(keys) |-> <<keys[j], jsonValue(row[keys[j]])>>]

\* JSONWriter.Write: each table's rows sorted by primary key, under the
\* table's key; the encoder writes the keys of the map in sorted order.
JSONDocument(g, data, tbls) ==
    LET keys == JSONKeyOrder(g, tbls)
    IN IF ~keys.ok THEN [ok |-> FALSE, members |-> <<>>]
       ELSE [ok |-> TRUE,
             members |-> [i \in 1..Len(keys.order) |->
                LET sortedRows == SortRows(GetPrimaryKeyColumns(g, keys.order[i]),
                                           Lookup(data, keys.order[i]))
                IN <<keys.order[i], [k \in 1..Len(sortedRows) |-> jsonRow(sortedRows[k])]>>]]

\* The documents a finished extraction can produce, over every order in
\* which GetAllTables may enumerate ts.TableData.
SQLDocuments(g, data) == {SQLDocument(g, data, tbls) : tbls \in Orderings(DOMAIN data)}

JSONDocuments(g, data) == {JSONDocument(g, data, tbls) : tbls \in Orderings(DOMAIN data)}

\* The set of rows accumulated per table.
RowSets(data) == [t \in DOMAIN data |-> Range(data[t])]

\* The same pull is run again: same database, same query, same options.
\* What the first run accumulated and would emit is kept for comparison.
Rerun ==
    /\ pc = "done" /\ runNo = 1 /\ epc = "idle"
    /\ prev' = [rows |-> RowSets(TableData),
                sql |-> SQLDocuments(graph, TableData),
                json |-> JSONDocuments(graph, TableData)]
    /\ runNo' = 2
    /\ VisitedRows' = EmptyMap /\ TableData' = EmptyMap /\ RowCount' = 0
    /\ pc' = "root" /\ bfs' = NoTraversal /\ loop' = NoLoop
    /\ processedParents' = {} /\ err' = NoError
    /\ UNCHANGED <<gvars, evars, pvars, schema, query, opts>>

-----------------------------------------------------------------------------
(* The target database and the direct executor                             *)

\* The target has the schema of the source.  Its state maps every table to
\* its set of rows; it is empty, or already holds the rows of the source.
EmptyTarget(s) == [t \in SourceTables(s) |-> {}]

\* A target filled by an earlier pull, before the source changed: task 1
\* was unassigned, revision 1 of part 2 had no base part, entry 1 was in
\* currency 2.
StaleTarget(s) ==
    IF s = "tracker"
    THEN [SourceRows(s) EXCEPT !["tasks"] =
            {[id |-> 1, assigned_to |-> Null], [id |-> 2, assigned_to |-> Null]}]
    ELSE IF s = "parts"
    THEN [SourceRows(s) EXCEPT !["parts"] =
            {[num |-> 1, rev |-> 1, base_num |-> Null],
             [num |-> 2, rev |-> 1, base_num |-> Null]}]
    ELSE [SourceRows(s) EXCEPT !["entries"] =
            {[id |-> 1, account_number |-> 2, currency_code |-> 2],
             [id |-> 2, account_number |-> 1, currency_code |-> 2]}]

PossibleTargets(s) == {EmptyTarget(s), SourceRows(s), StaleTarget(s)}

NoTx == <<>>

\* The columns a foreign key may reference are unique in their table.
UniqueColumns(s, t) ==
    {fk.ParentColumn : fk \in {f \in SourceForeignKeys(s) : f.ParentTable = t}}

SamePK(pkColumns, r, q) == \A i \in 1..Len(pkColumns) : r[pkColumns[i]] = q[pkColumns[i]]

\* Variant of ExecInsert: the statement has no ON CONFLICT clause.
ExecInsertPlain(s, db, tableName, columns, row, upsert) ==
    LET pkColumns == Lookup(SourcePrimaryKeys(s), tableName)
        new == [c \in Range(SourceColumns(s)[tableName]) |->
                    IF c \in Range(columns) /\ c \in DOMAIN row THEN row[c] ELSE Null]
        conflict == {q \in db[tableName] : Len(pkColumns) > 0 /\ SamePK(pkColumns, new, q)}
        kept == db[tableName]
        written == {new}
        after == [db EXCEPT ![tableName] = kept \cup written]
        pkNull == \E i \in 1..Len(pkColumns) : new[pkColumns[i]] = Null
        pkTaken == conflict # {}
        uniqueTaken == \E c \in UniqueColumns(s, tableName) : \E q \in kept :
                            q[c] = new[c] /\ new[c] # Null
        fkBroken == \E fk \in SourceForeignKeys(s) :
                        /\ fk.ChildTable = tableName
                        /\ new[fk.ChildColumn] # Null
                        /\ ~\E p \in after[fk.ParentTable] :
                                p[fk.ParentColumn] = new[fk.ChildColumn]
    IN IF pkNull \/ pkTaken \/ uniqueTaken \/ fkBroken
       THEN [ok |-> FALSE, db |-> db]
       ELSE [ok |-> TRUE, db |-> after]

\* One INSERT of insertTable's row loop, as the target executes it inside
\* the transaction: columns not listed are NULL; a NULL primary-key value,
\* a duplicate primary key (unless ON CONFLICT applies), a duplicate of a
\* unique column or an unresolved foreign-key value fails the statement,
\* and so does "ON CONFLICT ()" for a table without a primary key.
ExecInsert(s, db, tableName, columns, row, upsert) ==
    LET pkColumns == Lookup(SourcePrimaryKeys(s), tableName)
        new == [c \in Range(SourceColumns(s)[tableName]) |->
                    IF c \in Range(columns) /\ c \in DOMAIN row THEN row[c] ELSE Null]
        conflict == {q \in db[tableName] : Len(pkColumns) > 0 /\ SamePK(pkColumns, new, q)}
        kept == IF upsert THEN db[tableName] \ conflict ELSE db[tableName]
        \* ON CONFLICT DO UPDATE sets the listed columns of the stored row.
        written == IF upsert /\ conflict # {}
                   THEN {[c \in DOMAIN q |-> IF c \in Range(columns) THEN new[c] ELSE q[c]] :
                            q \in conflict}
                   ELSE {new}
        after == [db EXCEPT ![tableName] = kept \cup written]
        pkNull == \E i \in 1..Len(pkColumns) : new[pkColumns[i]] = Null
        pkTaken == ~upsert /\ conflict # {}
        noConflictTarget == upsert /\ Len(pkColumns) = 0
        uniqueTaken == \E c \in UniqueColumns(s, tableName) : \E q \in kept :
                            q[c] = new[c] /\ new[c] # Null
        fkBroken == \E fk \in SourceForeignKeys(s) :
                        /\ fk.ChildTable = tableName
                        /\ new[fk.ChildColumn] # Null
                        /\ ~\E p \in after[fk.ParentTable] :
                                p[fk.ParentColumn] = new[fk.ChildColumn]
    IN IF pkNull \/ pkTaken \/ noConflictTarget \/ uniqueTaken \/ fkBroken
       THEN [ok |-> FALSE, db |-> db]
       ELSE [ok |-> TRUE, db |-> after]

\* insertTable's loop "for _, row := range rows" from row i on; the exec
\* fault makes the statement of row failAt fail.
RECURSIVE insertRows(_, _, _, _, _, _, _, _)
insertRows(s, db, tableName, columns, rows, upsert, failAt, i) ==
    IF i > Len(rows) THEN [err |-> NoError, db |-> db]
    ELSE LET done == ExecInsert(s, db, tableName, columns, rows[i], upsert)
         IN IF failAt = i \/ ~done.ok
            THEN [err |-> "failed to insert row", db |-> db]
            ELSE insertRows(s, done.db, tableName, columns, rows, upsert, failAt, i + 1)

\* insertTable: sort the rows by primary key, take the columns of the first
\* row, look up the target's column types, insert row by row.
insertTable(s, g, db, tableName, rows, upsert, fault) ==
    LET sortedRows == SortRows(GetPrimaryKeyColumns(g, tableName), rows)
    IN IF Len(rows) = 0 THEN [err |-> NoError, db |-> db]
       ELSE IF fault.query THEN [err |-> "failed to get column info", db |-> db]
       ELSE insertRows(s, db, tableName, columnsOf(sortedRows[1]), sortedRows,
                       upsert, fault.failAt, 1)

\* validateForeignKeys: table -> the parent tables that are absent from the
\* snapshot or hold no rows (self-referential foreign keys skipped).
missingRefs(g, data) ==
    LET missing(t) == SelectSeq(GetParents(g, t), LAMBDA fk :
                        /\ fk.ParentTable # t
                        /\ (fk.ParentTable \notin DOMAIN data
                            \/ Len(data[fk.ParentTable]) = 0))
        flagged == {t \in DOMAIN data : Len(data[t]) > 0 /\ Len(missing(t)) > 0}
    IN [t \in flagged |-> [i \in 1..Len(missing(t)) |-> missing(t)[i].ParentTable]]

\* Variant of validateForeignKeys: nothing is checked.
validateForeignKeysSkipped(g, data) == TRUE

validateForeignKeys(g, data) == DOMAIN missingRefs(g, data) = {}

\* Variant of Rollback: the statements executed so far stay in the target.
RollbackKeepingWrites(committedRows, txRows) == txRows

\* What the target holds once the transaction has ended.
Commit(committedRows, txRows) == txRows

Rollback(committedRows, txRows) == committedRows

\* executeToDatabase after the confirmation: pgx.Connect to the target,
\* whose state at that moment is any of the possible ones, and NewExecutor.
ConnectTarget ==
    /\ pc = "done" /\ runNo = 1 /\ epc = "idle"
    /\ \E db \in PossibleTargets(schema), upsert \in BOOLEAN :
        /\ committed' = db
        /\ before' = db
        /\ upsertMode' = upsert
    /\ epc' = "connected"
    /\ UNCHANGED <<gvars, tvars, pvars, tx, sortedTables, ti, execErr, execRun>>

\* Execute up to the insertion loop: validateForeignKeys, GetAllTables,
\* TopologicalSort, Begin.
ExecuteBegin ==
    /\ epc = "connected"
    /\ \E tbls \in Orderings(DOMAIN TableData),
          beginFails \in IF execRun = 1 THEN BOOLEAN ELSE {FALSE} :
        LET sorted == ExecTableOrder(graph, tbls)
        IN IF ~validateForeignKeys(graph, TableData)
           THEN /\ epc' = "failed" /\ execErr' = "foreign key integrity violation"
                /\ UNCHANGED <<tx, sortedTables>>
           ELSE IF ~sorted.ok
           THEN /\ epc' = "failed" /\ execErr' = "failed to sort tables"
                /\ UNCHANGED <<tx, sortedTables>>
           ELSE IF beginFails
           THEN /\ epc' = "failed" /\ execErr' = "failed to start transaction"
                /\ UNCHANGED <<tx, sortedTables>>
           ELSE /\ epc' = "inserting" /\ execErr' = NoError
                /\ tx' = committed
                /\ sortedTables' = sorted.order
    /\ ti' = 1
    /\ UNCHANGED <<gvars, tvars, pvars, committed, before, upsertMode, execRun>>

\* One iteration of Execute's loop over sortedTables: insertTable.  It sorts
\* the rows of ts.TableData in place.  An error returns from Execute, and
\* the deferred Rollback ends the transaction.
ExecuteInsertTable ==
    /\ epc = "inserting" /\ ti <= Len(sortedTables)
    /\ \E fault \in IF execRun = 1 THEN Faults ELSE {NoFault} :
        LET tableName == sortedTables[ti]
            rows == Lookup(TableData, tableName)
            done == insertTable(schema, graph, tx, tableName, rows, upsertMode, fault)
        IN /\ TableData' = IF Len(rows) = 0 THEN TableData
                           ELSE Put(TableData, tableName,
                                    SortRows(GetPrimaryKeyColumns(graph, tableName), rows))
           /\ IF done.err # NoError
              THEN /\ epc' = "failed" /\ execErr' = "failed to insert"
                   /\ committed' = Rollback(committed, done.db)
                   /\ tx' = NoTx
                   /\ ti' = ti
              ELSE /\ epc' = epc /\ execErr' = execErr
                   /\ committed' = committed
                   /\ tx' = done.db
                   /\ ti' = ti + 1
    /\ UNCHANGED <<gvars, pvars, schema, query, opts, VisitedRows, RowCount, pc, bfs, loop,
                   processedParents, err, runNo, prev, before, upsertMode, sortedTables,
                   execRun>>

\* tx.Commit: the target applies the whole transaction, or reports an error
\* and applies nothing.
ExecuteCommit ==
    /\ epc = "inserting" /\ ti > Len(sortedTables)
    /\ \E commitFails \in IF execRun = 1 THEN BOOLEAN ELSE {FALSE} :
        IF commitFails
        THEN /\ epc' = "failed" /\ execErr' = "failed to commit transaction"
             /\ committed' = Rollback(committed, tx)
        ELSE /\ epc' = "committed" /\ execErr' = NoError
             /\ committed' = Commit(committed, tx)
    /\ tx' = NoTx
    /\ UNCHANGED <<gvars, tvars, pvars, before, upsertMode, sortedTables, ti, execRun>>

\* Execute is called again with the same snapshot on the same target, over
\* a healthy connection.
ExecuteAgain ==
    /\ epc = "committed" /\ upsertMode /\ execRun = 1
    /\ epc' = "connected" /\ execRun' = 2
    /\ before' = committed
    /\ sortedTables' = <<>> /\ ti' = 1
    /\ UNCHANGED <<gvars, tvars, pvars, committed, upsertMode, tx, execErr>>

-----------------------------------------------------------------------------
(* The pull command: runPull, writeOutput, executeToDatabase               *)

\* The characters of the words that the queries below are written with.
Chars(w) ==
    CASE w = "SELECT" -> <<"S", "E", "L", "E", "C", "T">>
      [] w = "*" -> <<"*">>
      [] w = "FROM" -> <<"F", "R", "O", "M">>
      [] w = "WHERE" -> <<"W", "H", "E", "R", "E">>
      [] w = "orders" -> <<"o", "r", "d", "e", "r", "s">>
      [] w = "events" -> <<"e", "v", "e", "n", "t", "s">>
      [] w = "created_at" -> <<"c", "r", "e", "a", "t", "e", "d", "_", "a", "t">>
      [] w = "id" -> <<"i", "d">>
      [] w = ">" -> <<">">>
      [] w = "=" -> <<"=">>
      [] w = "1" -> <<"1">>
      [] w = "-" -> <<"-">>
      [] w = "NOW()" -> <<"N", "O", "W", "(", ")">>
      [] w = "INTERVAL" -> <<"I", "N", "T", "E", "R", "V", "A", "L">>
      [] w = "'7" -> <<"'", "7">>
      [] w = "days'" -> <<"d", "a", "y", "s", "'">>
      [] w = "'2024-01-01'" -> <<"'", "2", "0", "2", "4", "-", "0", "1", "-", "0", "1", "'">>
      [] w = "DELETE" -> <<"D", "E", "L", "E", "T", "E">>
      [] w = "INSERT" -> <<"I", "N", "S", "E", "R", "T">>
      [] w = "UPDATE" -> <<"U", "P", "D", "A", "T", "E">>
      [] w = "DROP" -> <<"D", "R", "O", "P">>
      [] w = "CREATE" -> <<"C", "R", "E", "A", "T", "E">>
      [] w = "ALTER" -> <<"A", "L", "T", "E", "R">>
      [] w = "Select" -> <<"S", "e", "l", "e", "c", "t">>
      [] w = "select" -> <<"s", "e", "l", "e", "c", "t">>
      [] w = "payload" -> <<"p", "a", "y", "l", "o", "a", "d">>
      [] w = "::text" -> <<":", ":", "t", "e", "x", "t">>
      [] w = "AS" -> <<"A", "S">>
      [] w = "to_jsonb(" -> <<"t", "o", "_", "j", "s", "o", "n", "b", "(">>
      [] w = ")" -> <<")">>
      [] w = "," -> <<",">>

\* strings.ToUpper, character by character.
ToUpper(text) ==
    LET UpperChar(c) ==
        CASE c = "a" -> "A" [] c = "b" -> "B" [] c = "c" -> "C" [] c = "d" -> "D" [] c = "e" -> "E" [] c = "f" -> "F"
          [] c = "g" -> "G" [] c = "h" -> "H" [] c = "i" -> "I" [] c = "j" -> "J" [] c = "k" -> "K" [] c = "l" -> "L"
          [] c = "m" -> "M" [] c = "n" -> "N" [] c = "o" -> "O" [] c = "p" -> "P" [] c = "q" -> "Q" [] c = "r" -> "R"
          [] c = "s" -> "S" [] c = "t" -> "T" [] c = "u" -> "U" [] c = "v" -> "V" [] c = "w" -> "W" [] c = "x" -> "X"
          [] c = "y" -> "Y" [] c = "z" -> "Z"
          [] OTHER -> c
    IN [i \in 1..Len(text) |-> UpperChar(text[i])]

\* strings.Contains.
Contains(text, sub) ==
    \E i \in 1..(Len(text) - Len(sub) + 1) : SubSeq(text, i, i + Len(sub) - 1) = sub

\* A query given as its words: the string is the words joined by blanks.
RECURSIVE QueryString(_)
QueryString(ws) ==
    IF Len(ws) = 0 THEN <<>>
    ELSE IF Len(ws) = 1 THEN Chars(ws[1])
    ELSE Chars(ws[1]) \o <<" ">> \o QueryString(Tail(ws))

\* The two date-scoped queries of the README, a query by primary key, and
\* a statement that writes.
LastWeeksOrders ==
    <<"SELECT", "*", "FROM", "orders", "WHERE", "created_at", ">",
      "NOW()", "-", "INTERVAL", "'7", "days'">>

EventsSince2024 ==
    <<"SELECT", "*", "FROM", "events", "WHERE", "created_at", ">", "'2024-01-01'">>

QueryFlags ==
    {LastWeeksOrders, EventsSince2024,
     <<"SELECT", "*", "FROM", "orders", "WHERE", "id", "=", "1">>,
     <<"Select", "*", "FROM", "orders", "WHERE", "id", "=", "1">>,
     <<"DELETE", "FROM", "orders", "WHERE", "id", "=", "1">>}

\* DetectBaseTable up to EXPLAIN: the query, in upper case, must contain
\* none of the keywords.
ReadOnlyCheck(ws) ==
    IF \E k \in {"INSERT", "UPDATE", "DELETE", "DROP", "CREATE", "ALTER"} :
            Contains(ToUpper(QueryString(ws)), Chars(k))
    THEN "query must be read-only (SELECT only)"
    ELSE NoError

\* information_schema.columns of the two tables the queries read, by
\* ordinal position: orders keeps a jsonb payload, events has no JSON column.
ColumnTypes(t) ==
    IF t = "orders"
    THEN <<[name |-> "id", type |-> "integer"],
           [name |-> "created_at", type |-> "timestamp"],
           [name |-> "payload", type |-> "jsonb"]>>
    ELSE <<[name |-> "id", type |-> "integer"],
           [name |-> "created_at", type |-> "timestamp"]>>

isJSON(col) == col.type = "jsonb" \/ col.type = "json"

\* The table EXPLAIN reports for these single-table queries.
DetectBaseTable(ws) == ws[(CHOOSE i \in 1..Len(ws) : ws[i] = "FROM") + 1]

\* strings.Join(cols, ", ").
RECURSIVE Join(_)
Join(cols) ==
    IF Len(cols) = 0 THEN <<>>
    ELSE IF Len(cols) = 1 THEN cols[1]
    ELSE cols[1] \o <<",", " ">> \o Join(Tail(cols))

\* strings.Replace(text, old, new, 1).
Replace(text, old, new) ==
    LET hits == {i \in 1..(Len(text) - Len(old) + 1) : SubSeq(text, i, i + Len(old) - 1) = old}
    IN IF hits = {} THEN text
       ELSE LET i == CHOOSE h \in hits : \A k \in hits : h <= k
            IN SubSeq(text, 1, i - 1) \o new \o SubSeq(text, i + Len(old), Len(text))

\* executeRootQuery, lines 136-168: the text sent to the source.
rootSelectCols(t) ==
    [i \in 1..Len(ColumnTypes(t)) |->
        LET col == ColumnTypes(t)[i]
        IN IF isJSON(col)
           THEN Chars(col.name) \o Chars("::text") \o <<" ">> \o Chars("AS") \o <<" ">> \o Chars(col.name)
           ELSE Chars(col.name)]

queryToRun(ws) ==
    LET t == DetectBaseTable(ws)
        hasJSONB == \E i \in 1..Len(ColumnTypes(t)) : isJSON(ColumnTypes(t)[i])
        list == QueryString(<<"SELECT">>) \o <<" ">> \o Join(rootSelectCols(t))
    IN IF hasJSONB /\ Contains(ToUpper(QueryString(ws)), QueryString(<<"SELECT", "*">>))
       THEN Replace(Replace(QueryString(ws), QueryString(<<"SELECT", "*">>), list),
                    QueryString(<<"select", "*">>), list)
       ELSE QueryString(ws)

\* fetchRowsByPK, lines 497-505: the column list of a non-root fetch.
fetchSelectCols(t) ==
    [i \in 1..Len(ColumnTypes(t)) |->
        LET col == ColumnTypes(t)[i]
        IN IF isJSON(col)
           THEN Chars("to_jsonb(") \o Chars(col.name) \o Chars(")") \o Chars("::text")
                    \o <<" ">> \o Chars("AS") \o <<" ">> \o Chars(col.name)
           ELSE Chars(col.name)]

\* The flags and environment of one invocation.  A DSN is "", or names
\* database "A" or "B".
DSNs == {"", "A", "B"}

Invocations ==
    [source : DSNs, sourceEnv : DSNs, target : DSNs, targetEnv : DSNs,
     execMode : BOOLEAN, outFile : {"", "out.sql"}, upsertMode : BOOLEAN,
     dryRun : BOOLEAN, query : QueryFlags]

\* "--source flag > PGROCKET_SOURCE env".
SourceDSN(f) == IF f.source = "" THEN f.sourceEnv ELSE f.source

getTargetDSN(f) == IF f.target = "" THEN f.targetEnv ELSE f.target

\* Variant of ValidateFlags: --upsert without --exec is not rejected.
ValidateFlagsWithoutUpsertCheck(f) ==
    IF SourceDSN(f) = "" THEN "source database not specified"
    ELSE IF f.execMode /\ getTargetDSN(f) = "" THEN "--exec mode requires a target database"
    ELSE IF f.execMode /\ getTargetDSN(f) = SourceDSN(f)
    THEN "--exec mode requires source and target databases to be different"
    ELSE IF f.execMode /\ f.outFile # "" THEN "cannot use both --exec and --out flags together"
    ELSE NoError

\* The validations of runPull, in their order: the error returned, or
\* NoError.
ValidateFlags(f) ==
    IF SourceDSN(f) = "" THEN "source database not specified"
    ELSE IF f.execMode /\ getTargetDSN(f) = "" THEN "--exec mode requires a target database"
    ELSE IF f.execMode /\ getTargetDSN(f) = SourceDSN(f)
    THEN "--exec mode requires source and target databases to be different"
    ELSE IF f.execMode /\ f.outFile # "" THEN "cannot use both --exec and --out flags together"
    ELSE IF f.upsertMode /\ ~f.execMode THEN "--upsert flag requires --exec mode"
    ELSE NoError

\* runPull up to db.NewConnection: the flags are validated; then the source
\* is connected to, which may fail.
RunPull ==
    /\ ppc = "start"
    /\ IF ValidateFlags(flags) # NoError
       THEN /\ ppc' = "returned" /\ pullErr' = ValidateFlags(flags)
            /\ netIO' = netIO
       ELSE \E connected \in BOOLEAN :
            /\ netIO' = Append(netIO, <<"connect", SourceDSN(flags)>>)
            /\ IF connected THEN ppc' = "connected" /\ pullErr' = NoError
               ELSE ppc' = "returned" /\ pullErr' = "connection failed"
    /\ UNCHANGED <<gvars, tvars, evars, flags>>

\* NewEngine reads the catalog of the source; then the options are built
\* and a dry run returns.
PullNewEngine ==
    /\ ppc = "connected"
    /\ netIO' = Append(netIO, <<"query", SourceDSN(flags)>>)
    /\ \E built \in BOOLEAN :
        IF ~built THEN ppc' = "returned" /\ pullErr' = "engine failed"
        ELSE IF flags.dryRun THEN ppc' = "returned" /\ pullErr' = NoError
        ELSE ppc' = "engine" /\ pullErr' = NoError
    /\ UNCHANGED <<gvars, tvars, evars, flags>>

\* Variant of PullExtract: after a failed extraction pull goes on with what
\* the traversal had accumulated.
PullExtractKeepingPartial ==
    /\ ppc = "engine"
    /\ IF ReadOnlyCheck(flags.query) # NoError
       THEN /\ ppc' = "extracted" /\ pullErr' = ReadOnlyCheck(flags.query)
            /\ netIO' = netIO
       ELSE /\ netIO' = Append(netIO, <<"query", SourceDSN(flags)>>)
            /\ \E extracted \in BOOLEAN :
                /\ ppc' = "extracted"
                /\ pullErr' = IF extracted THEN NoError ELSE "extraction failed"
    /\ UNCHANGED <<gvars, tvars, evars, flags>>

\* engine.Extract: ValidateQuery, whose first step sends nothing to the
\* source; then EXPLAIN and the extraction (specified by Spec) query the
\* source and yield a state or an error.
PullExtract ==
    /\ ppc = "engine"
    /\ IF ReadOnlyCheck(flags.query) # NoError
       THEN /\ ppc' = "returned" /\ pullErr' = ReadOnlyCheck(flags.query)
            /\ netIO' = netIO
       ELSE /\ netIO' = Append(netIO, <<"query", SourceDSN(flags)>>)
            /\ \E extracted \in BOOLEAN :
                IF extracted THEN ppc' = "extracted" /\ pullErr' = NoError
                ELSE ppc' = "returned" /\ pullErr' = "extraction failed"
    /\ UNCHANGED <<gvars, tvars, evars, flags>>

\* writeOutput in the default format: os.Create of the --out file, which
\* creates or truncates it, or stdout; then SQLWriter.Write.  Write returns
\* an error when os.Create or the sort failed; the result of every Fprint
\* is discarded, so a writer that fails part-way leaves a partial document
\* and Write returns nil.
PullWriteOutput ==
    /\ ppc = "extracted" /\ ~flags.execMode
    /\ ppc' = "returned"
    /\ \E outcome \in {"failed", "complete", "partial"} :
        /\ pullErr' = IF outcome = "failed" THEN "output failed" ELSE NoError
        /\ netIO' = (IF flags.outFile # "" THEN Append(netIO, <<"create", flags.outFile>>)
                     ELSE netIO)
                    \o (IF outcome = "failed" THEN <<>> ELSE <<<<"write", outcome>>>>)
    /\ UNCHANGED <<gvars, tvars, evars, flags>>

\* executeToDatabase: the operator confirms or not; on "yes" the target is
\* connected to and Execute (specified by Spec) runs against it.
PullExecuteToDatabase ==
    /\ ppc = "extracted" /\ flags.execMode
    /\ ppc' = "returned"
    /\ \E confirmed \in BOOLEAN, connected \in BOOLEAN, executed \in BOOLEAN :
        IF ~confirmed THEN pullErr' = NoError /\ netIO' = netIO
        ELSE IF ~connected
        THEN /\ pullErr' = "failed to connect to target database"
             /\ netIO' = Append(netIO, <<"connect", getTargetDSN(flags)>>)
        ELSE /\ pullErr' = IF executed THEN NoError ELSE "execute failed"
             /\ netIO' = netIO \o <<<<"connect", getTargetDSN(flags)>>,
                                    <<"query", getTargetDSN(flags)>>>>
    /\ UNCHANGED <<gvars, tvars, evars, flags>>

-----------------------------------------------------------------------------
(* Specifications                                                          *)

TraversalIdle ==
    /\ schema = "" /\ query = <<>> /\ opts = <<>>
    /\ VisitedRows = EmptyMap /\ TableData = EmptyMap /\ RowCount = 0
    /\ pc = "idle" /\ bfs = NoTraversal /\ loop = NoLoop
    /\ processedParents = {} /\ err = NoError /\ runNo = 1 /\ prev = <<>>

ExecutorIdle ==
    /\ epc = "idle" /\ upsertMode = FALSE /\ committed = <<>> /\ before = <<>>
    /\ tx = NoTx /\ sortedTables = <<>> /\ ti = 1 /\ execErr = NoError
    /\ execRun = 1

PullIdle ==
    /\ flags = <<>> /\ ppc = "idle" /\ pullErr = NoError /\ netIO = <<>>

\* The graph of any catalog over GraphTables, and the order in which each
\* output handles the tables that hold rows.
GraphInit ==
    /\ fkRows \in {CatalogOrder(S) : S \in Catalogs}
    /\ graph = NoGraph
    /\ gpc = "new"
    /\ cyclePath = <<>>
    /\ tables = <<>>
    /\ emitted = <<>>
    /\ TraversalIdle /\ ExecutorIdle /\ PullIdle

GraphNext == NewEngine \/ GetAllTables \/ SQLWrite \/ JSONWrite \/ ExecuteOrder

SpecGraph == GraphInit /\ [][GraphNext]_vars

\* One pull against a source database, from the engine that NewEngine built
\* for its schema, followed by direct execution or by a second run.
Init ==
    /\ schema \in Schemas
    /\ fkRows = CatalogOrder(SourceForeignKeys(schema))
    /\ graph = SchemaGraph(schema)
    /\ gpc = "built" /\ cyclePath = <<>> /\ tables = <<>> /\ emitted = <<>>
    /\ query \in Queries(schema)
    /\ opts \in Options(schema)
    /\ VisitedRows = EmptyMap /\ TableData = EmptyMap /\ RowCount = 0
    /\ pc = "root" /\ bfs = NoTraversal /\ loop = NoLoop
    /\ processedParents = {} /\ err = NoError /\ runNo = 1 /\ prev = <<>>
    /\ ExecutorIdle /\ PullIdle

Next ==
    \/ ExecuteRootQuery
    \/ TraverseParentsDequeue \/ TraverseParentsFetch \/ TraverseParentsReturn
    \/ TraverseChildrenDequeue \/ TraverseChildrenFetch \/ TraverseChildrenReturn
    \/ RangeNext \/ RangeEnd
    \/ Rerun
    \/ ConnectTarget \/ ExecuteBegin \/ ExecuteInsertTable \/ ExecuteCommit
    \/ ExecuteAgain

Spec == Init /\ [][Next]_vars

\* One call of TraversalState.Extract on its own.  Extract runs in the
\* calling goroutine, statement after statement: a loop step that can be
\* taken is taken, and a query that was sent returns, with rows or with an
\* error.
ExtractControl ==
    \/ TraverseParentsDequeue \/ TraverseParentsReturn
    \/ TraverseChildrenDequeue \/ TraverseChildrenReturn
    \/ RangeNext \/ RangeEnd

ExtractFetch == ExecuteRootQuery \/ TraverseParentsFetch \/ TraverseChildrenFetch

ExtractNext == ExtractControl \/ ExtractFetch

\* Weak fairness of the queries; their enabling condition is that Extract
\* is at a statement that queries the source database.
FetchReturns ==
    \/ []<>(~(\/ pc = "root"
              \/ pc \in {"parents", "children"} /\ bfs.currentTable # ""))
    \/ []<><<ExtractFetch>>_vars

SpecExtract ==
    Init /\ [][ExtractNext]_vars /\ WF_vars(ExtractControl) /\ FetchReturns

\* One invocation of the pull command.
PullInit ==
    /\ flags \in Invocations
    /\ ppc = "start" /\ pullErr = NoError /\ netIO = <<>>
    /\ fkRows = <<>> /\ graph = NoGraph /\ gpc = "idle" /\ cyclePath = <<>>
    /\ tables = <<>> /\ emitted = <<>>
    /\ TraversalIdle /\ ExecutorIdle

PullNext ==
    \/ RunPull \/ PullNewEngine \/ PullExtract
    \/ PullWriteOutput \/ PullExecuteToDatabase

SpecPull == PullInit /\ [][PullNext]_vars

-----------------------------------------------------------------------------
(* Properties                                                              *)

\* The value a stored row holds in a column (nil if it lacks the column).
ValueOf(row, col) == IF col \in DOMAIN row THEN row[col] ELSE Null

\* Foreign key fk of the rows of table T resolves inside the snapshot.
Resolves(g, data, T, fk) ==
    \A i \in 1..Len(data[T]) :
        ValueOf(data[T][i], fk.ChildColumn) # Null =>
            \E j \in 1..Len(Lookup(data, fk.ParentTable)) :
                ValueOf(data[fk.ParentTable][j], fk.ParentColumn)
                    = ValueOf(data[T][i], fk.ChildColumn)

\* C1 (referential closure): after a successful extraction with
\* children_only = false from a referentially consistent source, every
\* non-null foreign-key value of every stored row, self-referential foreign
\* keys included, is the referenced column of some stored row of the
\* parent table.
C1_ReferentialClosure ==
    (pc = "done" /\ ~opts.ChildrenOnly /\ SourceConsistent(schema)) =>
        \A T \in DOMAIN TableData : \A k \in 1..Len(GetParents(graph, T)) :
            Resolves(graph, TableData, T, GetParents(graph, T)[k])

\* C2 (determinism): a second extraction against the same database with
\* the same query and options, when both succeed, accumulates the same set
\* of rows in every table and yields the same SQL document (timestamp line
\* apart) and the same JSON document as the first, whatever order the
\* runtime enumerated the accumulated tables in.
C2_Determinism ==
    (runNo = 2 /\ pc = "done") =>
        /\ RowSets(TableData) = prev.rows
        /\ SQLDocuments(graph, TableData) = prev.sql
        /\ JSONDocuments(graph, TableData) = prev.json

\* C3 (JSON key order): the top-level keys of the JSON document are in
\* topological order: for every foreign key between two different emitted
\* tables the parent's key is written before the child's key.
C3_JSONKeysTopological == gpc = "json" => ParentsFirst(graph, emitted)

\* C4 (parent before child): the SQL writer's table blocks and the
\* executor's table insertions come in an order that places, for every
\* foreign key between two different tables of the set, the parent table
\* before the child table, also when several foreign keys connect the pair.
C4_ParentBeforeChild == gpc \in {"sql", "exec"} => ParentsFirst(graph, emitted)

\* C4's case: an emitted order over a child with two foreign keys to the
\* same emitted parent.
C4_TwoFKsEmitted ==
    /\ gpc \in {"sql", "exec"}
    /\ \E child \in Range(emitted) :
         \E i, j \in 1..Len(GetParents(graph, child)) :
            /\ i # j
            /\ GetParents(graph, child)[i].ParentTable = GetParents(graph, child)[j].ParentTable
            /\ GetParents(graph, child)[i].ParentTable # child
            /\ GetParents(graph, child)[i].ParentTable \in Range(emitted)

\* Every extracted row is in the target's committed state.
AllRowsCommitted ==
    \A T \in DOMAIN TableData : \A i \in 1..Len(TableData[T]) :
        \E r \in committed[T] : \A c \in DOMAIN TableData[T][i] : r[c] = TableData[T][i][c]

\* C5 (executor atomicity): a run of Execute that returned success has
\* written and committed every row of every extracted table; a run that
\* failed (validation, begin, column lookup, a row insert, commit) leaves
\* the target's committed state exactly as it was before the call; and
\* nothing is committed while the run is under way.
C5_ExecutorAtomicity ==
    /\ epc \in {"connected", "inserting", "failed"} => committed = before
    /\ epc = "committed" => AllRowsCommitted

\* C5's case: Execute failed after the insertion loop had already inserted
\* the rows of at least one table.
C5_FailedAfterInserts ==
    epc = "failed" /\ ti > 1 /\ RowCount > 0 /\ before = EmptyTarget(schema)

\* The primary-key identity of a stored row: its values in the primary-key
\* columns of its table.
Identity(g, T, row) ==
    [i \in 1..Len(GetPrimaryKeyColumns(g, T)) |-> ValueOf(row, GetPrimaryKeyColumns(g, T)[i])]

\* C6 (deduplication): at every point of the traversal no two rows stored
\* for a table have the same primary-key identity.
C6_Dedup ==
    \A T \in DOMAIN TableData : \A i, j \in 1..Len(TableData[T]) :
        i # j => Identity(graph, T, TableData[T][i]) # Identity(graph, T, TableData[T][j])

RECURSIVE CountIdentities(_, _)
CountIdentities(visited, S) ==
    IF S = {} THEN 0
    ELSE LET T == CHOOSE x \in S : TRUE
         IN Cardinality(visited[T]) + CountIdentities(visited, S \ {T})

RECURSIVE CountRows(_, _)
CountRows(data, S) ==
    IF S = {} THEN 0
    ELSE LET T == CHOOSE x \in S : TRUE
         IN Len(data[T]) + CountRows(data, S \ {T})

C8_Accounting ==
    /\ \A T \in DOMAIN VisitedRows \cup DOMAIN TableData :
         /\ T \in DOMAIN VisitedRows
         /\ Cardinality(VisitedRows[T]) = Len(Lookup(TableData, T))
         /\ \A i \in 1..Len(Lookup(TableData, T)) :
               pkKeyOf(Identity(graph, T, TableData[T][i])) \in VisitedRows[T]
    /\ RowCount = CountRows(TableData, DOMAIN TableData)

\* C9 (foreign-key values validated): Execute reaches the insertion phase
\* only if every non-null value of every foreign key to another table, in
\* every extracted row, is the referenced column of some extracted row of
\* the parent table.
C9_FKValuesValidated ==
    epc \in {"inserting", "committed"} =>
        \A T \in DOMAIN TableData : \A k \in 1..Len(GetParents(graph, T)) :
            GetParents(graph, T)[k].ParentTable # T =>
                Resolves(graph, TableData, T, GetParents(graph, T)[k])

\* The configuration errors: no source DSN; --exec without a target; the
\* target equal to the source; --exec with --out; --upsert without --exec.
ConfigurationError(f) ==
    \/ f.source = "" /\ f.sourceEnv = ""
    \/ f.execMode /\ f.target = "" /\ f.targetEnv = ""
    \/ f.execMode /\ getTargetDSN(f) = SourceDSN(f)
    \/ f.execMode /\ f.outFile # ""
    \/ f.upsertMode /\ ~f.execMode

\* C10 (configuration errors precede network I/O): an invocation with a
\* configuration error opens no connection and issues no query, and pull
\* returns an error.
C10_ConfigBeforeIO ==
    ConfigurationError(flags) =>
        /\ netIO = <<>>
        /\ ppc \in {"start", "returned"}
        /\ ppc = "returned" => pullErr # NoError

\* C10's case: pull has returned the error of an invocation that gives
\* --upsert without --exec and is otherwise valid.
C10_UpsertWithoutExecRejected ==
    /\ ppc = "returned" /\ pullErr = "--upsert flag requires --exec mode"
    /\ SourceDSN(flags) # ""

\* ---- C11 ----
NoDuplicates(seq) == \A i, j \in 1..Len(seq) : seq[i] = seq[j] => i = j

RowsWithId(T, id) ==
    {i \in 1..Len(Lookup(TableData, T)) : ValueOf(TableData[T][i], "id") = id}

\* Users 2 and 3 of the tracker manage each other.
CyclicPairRoot ==
    /\ schema = "tracker" /\ query.BaseTable = "users"
    /\ \E r \in query.rows : r.id \in {2, 3}

ExtractReturned == pc \in {"done", "failed"}

\* C11: Extract returns, whatever the database and the options; a closure
\* expands no table twice; and when the root query selects one of two users
\* who manage each other and the parents are followed, each of the two is
\* stored exactly once.
C11_Termination ==
    /\ [](NoDuplicates(bfs.traversing))
    /\ []((pc = "done" /\ CyclicPairRoot /\ ~opts.ChildrenOnly) =>
            \A id \in {2, 3} : Cardinality(RowsWithId("users", id)) = 1)
    /\ <>ExtractReturned

C11_CyclicPairExtracted ==
    /\ pc = "done" /\ CyclicPairRoot /\ ~opts.ChildrenOnly
    /\ query.rows = {[id |-> 2, org_id |-> 2, manager_id |-> 3]}
    /\ \A id \in {2, 3} : Cardinality(RowsWithId("users", id)) = 1

\* ---- C12 ----
\* The catalog's references between two different tables, child to parent.
RefEdges(rows) ==
    {<<fk.ChildTable, fk.ParentTable>> :
        fk \in {r \in Range(rows) : r.ChildTable # r.ParentTable}}

Successors(E, S) == {e[2] : e \in {x \in E : x[1] \in S}}

RECURSIVE ReachFrom(_, _, _)
ReachFrom(E, S, n) ==
    IF n = 0 THEN S ELSE ReachFrom(E, S \cup Successors(E, S), n - 1)

\* The tables that lie on a directed cycle of references.
CycleTables(rows) ==
    LET E == RefEdges(rows)
    IN {t \in GraphTables : t \in ReachFrom(E, Successors(E, {t}), Cardinality(E))}

\* C12: once NewEngine has returned, it failed with the cycle error exactly
\* when the foreign keys between different tables contain a directed cycle;
\* and when the tables on cycles are just two, the error names both.
C12_CycleIff ==
    (gpc # "new") =>
        /\ (gpc = "cyclic") <=> (CycleTables(fkRows) # {})
        /\ (gpc = "cyclic" /\ Cardinality(CycleTables(fkRows)) = 2) =>
                CycleTables(fkRows) \subseteq Range(cyclePath)

C12_TwoTableCycleRejected ==
    /\ gpc = "cyclic"
    /\ CycleTables(fkRows) = {"a", "b"}
    /\ \E r \in Range(fkRows) : r.ChildTable = "c" /\ r.ParentTable = "c"
    /\ {"a", "b"} \subseteq Range(cyclePath)

\* ---- C13 ----
\* C13: the date-scoped queries of the README, which read one table and
\* filter on created_at, are not rejected by query validation.
C13_CreatedAtAccepted ==
    (ppc = "returned" /\ flags.query \in {LastWeeksOrders, EventsSince2024}) =>
        pullErr # "query must be read-only (SELECT only)"

\* ---- C14 ----
\* The source rows of fk's child table that reference a stored row of its
\* parent table are stored.
ChildrenFetched(fk) ==
    \A r \in SourceRows(schema)[fk.ChildTable] :
        (\E i \in 1..Len(Lookup(TableData, fk.ParentTable)) :
            r[fk.ChildColumn] = ValueOf(TableData[fk.ParentTable][i], fk.ParentColumn))
        => \E j \in 1..Len(Lookup(TableData, fk.ChildTable)) :
              TableData[fk.ChildTable][j] = r

\* C14: a successful extraction with --parents and a --children list holds,
\* besides the parents, the rows of the listed child tables that reference
\* the rows of the base table.
C14_CombinedMode ==
    (pc = "done" /\ opts.ParentsOnly /\ opts.SelectedChildren # <<>>) =>
        \A k \in 1..Len(GetChildren(graph, query.BaseTable)) :
            LET fk == GetChildren(graph, query.BaseTable)[k]
            IN (fk.ChildTable \in Range(opts.SelectedChildren)
                    /\ fk.ChildTable # query.BaseTable)
               => ChildrenFetched(fk)

\* ---- C15 ----
\* C15: an extraction whose --children list names a table that the schema
\* does not have does not end successfully.
C15_UnknownChildRejected ==
    ~(/\ pc = "done"
      /\ \E i \in 1..Len(opts.SelectedChildren) :
            opts.SelectedChildren[i] \notin SourceTables(schema))

ExtractionFailed ==
    pullErr \in {"query must be read-only (SELECT only)", "extraction failed"}

\* C17: when engine.Extract has failed, pull returns that error at once: it
\* has created no output file, and the only connection it has opened is
\* the one to the source.
C17_NoPartialResult ==
    ExtractionFailed =>
        /\ ppc = "returned"
        /\ \A i \in 1..Len(netIO) :
            /\ netIO[i][1] # "create"
            /\ netIO[i][1] = "connect" => (i = 1 /\ netIO[i][2] = SourceDSN(flags))

\* The extraction failed, after query validation, in an invocation that
\* asked for an output file.
C17_FailedWithOutFile ==
    /\ pullErr = "extraction failed" /\ ppc = "returned"
    /\ flags.outFile # "" /\ Len(netIO) = 3

\* ---- C18 ----
\* The tables of S that a chain of child foreign keys, all with their
\* child table in S, leads to from the base table.
SelectedReach(g, base, S) ==
    LET E == UNION {{<<p, Lookup(g.Children, p)[k].ChildTable>> :
                        k \in {n \in 1..Len(Lookup(g.Children, p)) :
                                    Lookup(g.Children, p)[n].ChildTable \in S}} :
                    p \in DOMAIN g.Children}
    IN ReachFrom(E, Successors(E, {base}), Cardinality(E))

\* C18: in a children-only extraction with selected children S, at any
\* moment and at the end, rows are held only for the base table and for
\* tables of S that child foreign keys inside S lead to from the base
\* table; no parent table is fetched.
C18_ChildrenOnlySelective ==
    (pc \in {"children", "done", "failed"} /\ opts.ChildrenOnly) =>
        DOMAIN TableData \subseteq
            {query.BaseTable}
                \cup SelectedReach(graph, query.BaseTable, Range(opts.SelectedChildren))

\* Users whose tasks are not selected but whose comments are: the comments
\* were fetched, the tasks and the organizations were not.
C18_CommentsOfUsersOnly ==
    /\ pc = "done" /\ opts.ChildrenOnly
    /\ opts.SelectedChildren = <<"comments">>
    /\ query.BaseTable = "users" /\ Cardinality(query.rows) = 3
    /\ DOMAIN TableData = {"users", "comments"}

\* ---- C19 ----
\* C19: TopologicalSort gives the same result for every order in which the
\* caller may have listed the same tables.
C19_SortIgnoresInputOrder ==
    (gpc \in {"listed", "sql", "json", "exec", "sortfailed"}) =>
        \A p \in Orderings(Range(tables)) :
            TopologicalSort(graph, p) = TopologicalSort(graph, tables)

\* Three tables with foreign keys among them, listed in an order that is
\* not the one they were written in.
C19_ListedOutOfOrder ==
    /\ gpc = "sql" /\ Len(tables) = 3 /\ Len(fkRows) >= 2
    /\ emitted # tables
    /\ emitted = TopologicalSort(graph, tables).order

\* ---- C20 ----
\* C20: the path of the cycle error starts and ends at the same table,
\* repeats no other table, and every table in it is referenced by the
\* table that follows it; so every table listed lies on that cycle.
C20_CyclePathIsCycle ==
    (gpc = "cyclic") =>
        /\ Len(cyclePath) >= 3
        /\ cyclePath[1] = cyclePath[Len(cyclePath)]
        /\ NoDuplicates(Tail(cyclePath))
        /\ \A i \in 1..(Len(cyclePath) - 1) :
            \E k \in 1..Len(fkRows) :
                /\ fkRows[k].ParentTable = cyclePath[i]
                /\ fkRows[k].ChildTable = cyclePath[i + 1]
        /\ Range(cyclePath) \subseteq CycleTables(fkRows)

\* The search started at a table that leads into the cycle without lying
\* on it.
C20_CycleBehindPrefix ==
    /\ gpc = "cyclic"
    /\ cyclePath = <<"b", "c", "b">>
    /\ \E k \in 1..Len(fkRows) :
        fkRows[k].ParentTable = "a" /\ fkRows[k].ChildTable = "b"

\* ---- C21 ----
\* The tables that child foreign keys lead to from the base table.
DownwardTables(base) ==
    LET E == {<<fk.ParentTable, fk.ChildTable>> : fk \in SourceForeignKeys(schema)}
    IN ReachFrom(E, Successors(E, {base}), Cardinality(E))

\* Why a stored row r of table X is there: the root query returned it, a
\* stored row references it, or X lies below the base table and r was
\* fetched for a stored row of a table that is the base table or below it
\* (fetchChildRows looks children up by the values of GetPrimaryKey).
RowExplained(X, r) ==
    \/ X = query.BaseTable /\ r \in Range(RootResult(query))
    \/ \E fk \in SourceForeignKeys(schema) :
        /\ fk.ParentTable = X
        /\ \E i \in 1..Len(Lookup(TableData, fk.ChildTable)) :
            ValueOf(TableData[fk.ChildTable][i], fk.ChildColumn) = ValueOf(r, fk.ParentColumn)
    \/ /\ X \in DownwardTables(query.BaseTable)
       /\ \E fk \in SourceForeignKeys(schema) :
           /\ fk.ChildTable = X
           /\ fk.ParentTable \in {query.BaseTable} \cup DownwardTables(query.BaseTable)
           /\ \E i \in 1..Len(Lookup(TableData, fk.ParentTable)) :
               ValueOf(TableData[fk.ParentTable][i], GetPrimaryKey(graph, fk.ParentTable))
                    = ValueOf(r, fk.ChildColumn)

\* C21: in full mode the downward closure is entered once, from the root
\* query or from the upward closure of the base table, and expands only the
\* base table and tables below it; so no stored row is there only because
\* it references a row of a table that an upward closure discovered.
C21_NoSecondDownwardRound ==
    /\ []((pc \in {"parents", "children", "range", "done"}
            /\ ~opts.ParentsOnly /\ ~opts.ChildrenOnly) =>
            /\ (pc = "children") =>
                  Range(bfs.traversing) \subseteq
                      {query.BaseTable} \cup DownwardTables(query.BaseTable)
            /\ \A X \in DOMAIN TableData : \A i \in 1..Len(TableData[X]) :
                  RowExplained(X, TableData[X][i]))
    /\ [][(pc # "children" /\ pc' = "children") =>
            (pc = "root" \/ (pc = "parents" /\ bfs.traversing[1] = query.BaseTable))]_vars

\* Comment 1 alone was selected; its author, user 3, was discovered by the
\* upward closure, and the other comment of user 3 was not fetched.
C21_AuthorsOtherCommentLeftOut ==
    /\ pc = "done" /\ ~opts.ParentsOnly /\ ~opts.ChildrenOnly
    /\ query.BaseTable = "comments"
    /\ Len(Lookup(TableData, "comments")) = 1
    /\ TableData["comments"][1].id = 1
    /\ \E i \in 1..Len(Lookup(TableData, "users")) : TableData["users"][i].id = 3

\* ---- C22 ----
\* The other tables that T references and that hold no rows.
MissingParents(T) ==
    {fk.ParentTable : fk \in {f \in SourceForeignKeys(schema) :
        /\ f.ChildTable = T /\ f.ParentTable # T
        /\ Len(Lookup(TableData, f.ParentTable)) = 0}}

LackingTables ==
    {T \in DOMAIN TableData : Len(TableData[T]) > 0 /\ MissingParents(T) # {}}

\* C22: once Execute has left its validation, it has failed with the
\* integrity error exactly when some table with rows references another
\* table that holds none; the error then names every such table with the
\* tables it lacks, no transaction was begun and the target is untouched.
C22_StructuralValidation ==
    (epc \in {"inserting", "committed", "failed"}) =>
        /\ (LackingTables # {}) <=> (execErr = "foreign key integrity violation")
        /\ (LackingTables # {}) =>
            /\ epc = "failed" /\ tx = NoTx /\ committed = before
            /\ DOMAIN missingRefs(graph, TableData) = LackingTables
            /\ \A T \in LackingTables :
                Range(missingRefs(graph, TableData)[T]) = MissingParents(T)

\* Comments alone were extracted: they lack both tasks and users.
C22_CommentsWithoutParents ==
    /\ epc = "failed" /\ execErr = "foreign key integrity violation"
    /\ DOMAIN TableData = {"comments"}
    /\ Len(missingRefs(graph, TableData)["comments"]) = 2

\* ---- C23 ----
\* The root query with the first "SELECT *", in whatever letter case the
\* detection accepted, replaced by the column list of the non-root fetches.
RootQueryWithFetchCast(ws) ==
    LET text == QueryString(ws)
        star == QueryString(<<"SELECT", "*">>)
        i == CHOOSE h \in 1..Len(text) :
                /\ SubSeq(ToUpper(text), h, h + Len(star) - 1) = star
                /\ \A k \in 1..(h - 1) : SubSeq(ToUpper(text), k, k + Len(star) - 1) # star
    IN SubSeq(text, 1, i - 1) \o QueryString(<<"SELECT">>) \o <<" ">>
          \o Join(fetchSelectCols(DetectBaseTable(ws)))
          \o SubSeq(text, i + Len(star), Len(text))

\* C23: when the root query contains SELECT * in a letter case the
\* detection accepts and the base table has a JSON or JSONB column, the
\* query executed is the root query with SELECT * replaced by the column
\* list that projects every such column as to_jsonb(col)::text AS col.
C23_RootProjectionCast ==
    (/\ ppc = "extracted" /\ pullErr = NoError
     /\ Contains(ToUpper(QueryString(flags.query)), QueryString(<<"SELECT", "*">>))
     /\ \E i \in 1..Len(ColumnTypes(DetectBaseTable(flags.query))) :
            isJSON(ColumnTypes(DetectBaseTable(flags.query))[i]))
        => queryToRun(flags.query) = RootQueryWithFetchCast(flags.query)

\* ---- C24 ----
\* C24: when the underlying writer failed during the header or a table
\* block, so that the document is incomplete, pull returns an error.
C24_EmissionErrorsSurface ==
    (/\ ppc = "returned" /\ Len(netIO) > 0
     /\ netIO[Len(netIO)] = <<"write", "partial">>)
        => pullErr # NoError

\* ---- C25 ----
\* C25: the root query returned without an error only if every row of its
\* result carries a non-null value in every primary-key column of the base
\* table (a row that lacks one, or holds a null in one, fails the row
\* processor).
C25_NullKeyRejected ==
    (pc \notin {"idle", "root", "failed"}) =>
        \A i \in 1..Len(RootResult(query)) :
            \A k \in 1..Len(GetPrimaryKeyColumns(graph, query.BaseTable)) :
                LET col == GetPrimaryKeyColumns(graph, query.BaseTable)[k]
                IN /\ col \in DOMAIN RootResult(query)[i]
                   /\ RootResult(query)[i][col] # Null

\* ---- C26 ----
\* C26: after BuildGraph succeeded, TopologicalSort of any list of the
\* schema's tables succeeds and returns every listed table exactly once;
\* neither a writer nor the executor reports a cycle.
C26_SortNeverFails ==
    /\ gpc # "sortfailed"
    /\ (gpc \in {"listed", "sql", "json", "exec"}) =>
        LET sorted == TopologicalSort(graph, tables)
        IN /\ sorted.ok
           /\ Len(sorted.order) = Len(tables)
           /\ Range(sorted.order) = Range(tables)
           /\ NoDuplicates(sorted.order)

\* All three tables were sorted and written although one of them
\* references itself and another table.
C26_SelfReferenceSorted ==
    /\ gpc = "sql" /\ Len(emitted) = 3
    /\ \E k \in 1..Len(fkRows) : fkRows[k].ParentTable = fkRows[k].ChildTable
    /\ \E k \in 1..Len(fkRows) : fkRows[k].ParentTable # fkRows[k].ChildTable

\* ---- C27 ----
\* C27: after an extraction all rows stored for a table have the same set
\* of column names.
C27_ColumnHomogeneity ==
    (pc = "done") =>
        \A T \in DOMAIN TableData : \A i, j \in 1..Len(TableData[T]) :
            DOMAIN TableData[T][i] = DOMAIN TableData[T][j]

\* ---- C28 ----
\* Rows p and q of table T agree on every primary-key column; for a table
\* without a primary key no two different rows do.
SameIdentity(T, p, q) ==
    LET pkColumns == GetPrimaryKeyColumns(graph, T)
    IN IF Len(pkColumns) = 0 THEN p = q
       ELSE \A k \in 1..Len(pkColumns) :
                ValueOf(p, pkColumns[k]) = ValueOf(q, pkColumns[k])

\* C28: when a fetch of parent rows returned without an error, every row
\* it delivered is stored or agrees with a stored row of its table on
\* every primary-key column; the rows of a table without a primary key are
\* all stored.
C28_DuplicatesAgreeOnKey ==
    [][(pc = "parents" /\ bfs.currentTable # "" /\ pc' = "parents") =>
        LET fk == GetParents(graph, bfs.currentTable)[bfs.fki]
            wanted == Range(ColumnValues(Lookup(TableData, bfs.currentTable), fk.ChildColumn))
            fetched == {p \in SourceRows(schema)[fk.ParentTable] : p[fk.ParentColumn] \in wanted}
        IN \A p \in fetched :
            \E i \in 1..Len(Lookup(TableData', fk.ParentTable)) :
                SameIdentity(fk.ParentTable, p, TableData'[fk.ParentTable][i])]_vars

\* ---- C29 ----
\* insertTable was called for the k-th sorted table: it returned nil, or it
\* returned the error that ended Execute.
InsertTableCalled(k) ==
    \/ k < ti
    \/ k = ti /\ epc = "failed" /\ execErr = "failed to insert"

\* C29: insertTable executes the rows of a table in the order its sort left
\* them in; in that order a row that references another extracted row of
\* the table through a self-referential foreign key comes after that row.
C29_SelfReferencesInsertedFirst ==
    (epc \in {"inserting", "committed", "failed"}) =>
        \A k \in 1..Len(sortedTables) : InsertTableCalled(k) =>
            LET T == sortedTables[k]
                rows == Lookup(TableData, T)
            IN \A fk \in SourceForeignKeys(schema) :
                (fk.ChildTable = T /\ fk.ParentTable = T) =>
                    \A i, j \in 1..Len(rows) :
                        (/\ i # j
                         /\ ValueOf(rows[i], fk.ChildColumn) # Null
                         /\ ValueOf(rows[i], fk.ChildColumn) = ValueOf(rows[j], fk.ParentColumn))
                            => j < i

\* ---- C30 ----
\* C30: in a children-only extraction every stored row that the root query
\* did not return is a child of a stored row: through some foreign key its
\* child column holds the value of the parent column of a stored row of
\* the parent table.
C30_DownwardSoundness ==
    (opts # <<>> /\ opts.ChildrenOnly /\ pc \in {"children", "done"}) =>
        \A X \in DOMAIN TableData : \A i \in 1..Len(TableData[X]) :
            LET r == TableData[X][i]
            IN \/ X = query.BaseTable /\ r \in Range(RootResult(query))
               \/ \E fk \in SourceForeignKeys(schema) :
                    /\ fk.ChildTable = X
                    /\ ValueOf(r, fk.ChildColumn) # Null
                    /\ \E j \in 1..Len(Lookup(TableData, fk.ParentTable)) :
                        ValueOf(TableData[fk.ParentTable][j], fk.ParentColumn)
                            = ValueOf(r, fk.ChildColumn)

====
